---- MODULE Spec2Model ----
(***************************************************************************)
(* Model of the chat backend: the tool registry and the two-phase          *)
(* tool-calling orchestrator (src/agent), and the bounded history cache in *)
(* front of the message store (src/api/services), and the WebSocket       *)
(* sessions with their message loop (src/api/v1/websocket).                *)
(***************************************************************************)
EXTENDS Naturals, Sequences, FiniteSets, TLC

\* Python's None, where a string may stand. An optional value of another type
\* is a sequence: <<>> for None, <<v>> for the value v.
None == "None"

\* ------------------------------------------------------------------------
\* Bounds
\* ------------------------------------------------------------------------

\* Largest number of tool calls one gateway reply carries.
MaxCalls == 2

\* Largest number of messages the store holds, over all chats, when the
\* MessageService is driven call by call.
MaxMessages == 4

\* settings.redis_max_messages (50 in src/api/core/configs.py), scaled down.
max_messages == 3

\* Largest number of frames a client sends over one connection.
MaxFrames == 2

\* ------------------------------------------------------------------------
\* State
\* ------------------------------------------------------------------------
VARIABLES
    _tools,        \* ToolRegistry._tools: the registered names, in insertion order
    caller,        \* who runs the tools: "process", or "direct" for a bare
                   \* ToolRegistry.execute_tool_calls
    pc,            \* where AgentOrchestrator.process is
    request,       \* the AgentRequest being processed
    llm_calls,     \* the calls made to llm_client.chat_completion, in order
    first_reply,   \* response.choices[0].message of the first call
    tool_calls,    \* the ToolCall DTOs of the first reply
    tool_results,  \* results collected by execute_tool_calls
    running,       \* a tool's execute has been awaited and has not returned
    events,        \* gateway calls and tool executions, in the order they happen
    response,      \* the AgentResponse process returned
    escaped,       \* the exception the call let through to its caller, or None
    failure        \* the exception process met: [at, cls, msg]

agentVars == <<_tools, caller, pc, request, llm_calls, first_reply, tool_calls,
               tool_results, running, events, response, escaped, failure>>

VARIABLES
    db_messages,   \* the messages table, in creation order
    redis,         \* Redis: for each chat the list under its messages key
    redis_ttl,     \* Redis: whether the key has an expiry set
    task           \* for each worker, the MessageService call it is in

cacheVars == <<db_messages, redis, redis_ttl, task>>

VARIABLES
    active_connections, \* ConnectionManager.active_connections: chat id -> websockets
    websocket_users,    \* ConnectionManager.websocket_users: websocket -> user id
    handler,            \* the handler object of the connection: variant, chat_id, user_id
    hpc,                \* where the handler's handle_connection is
    client_open,        \* the client has not closed the transport
    inbox,              \* text frames the client sent and the handler has not received
    sent_count,         \* how many frames the client has sent
    current,            \* the frame being handled and the locals of its handling
    trace,              \* what the handler and the services did, in order
    chat_history_cache, \* ChatSessionService.chat_history_cache
    svc,                \* the ChatSessionService call under way
    demo_users          \* the throwaway users that exist

sessionVars == <<active_connections, websocket_users, handler, hpc, client_open, inbox,
                 sent_count, current, trace, chat_history_cache, svc, demo_users>>

VARIABLES
    now,                \* time since the handler was built, in watchdog periods
    demo_chats,         \* the chats of the throwaway users
    teardown            \* the cleanup_session calls made on the handler, in order

lifeVars == <<now, demo_chats, teardown>>

VARIABLES
    bc                  \* the broadcast_to_chat call under way

registryVars == <<bc>>

vars == <<agentVars, cacheVars, sessionVars, lifeVars, registryVars>>

\* ------------------------------------------------------------------------
\* Exceptions
\* ------------------------------------------------------------------------

\* The direct base class of each exception class the model raises.
BaseOf(cls) ==
    CASE cls = "LLMAuthenticationError" -> "LLMError"
      [] cls = "LLMRateLimitError"      -> "LLMError"
      [] cls = "LLMContextLengthError"  -> "LLMError"
      [] cls = "LLMError"               -> "AgentError"
      [] cls = "AgentError"             -> "Exception"
      [] cls = "AuthenticationError"    -> "APIError"
      [] cls = "RateLimitError"         -> "APIError"
      [] cls = "APIError"               -> "Exception"
      [] cls = "TimeoutError"           -> "Exception"
      [] cls = "TypeError"              -> "Exception"
      [] OTHER                          -> "Exception"

RECURSIVE IsInstance(_, _)
IsInstance(cls, base) ==
    IF cls = base THEN TRUE
    ELSE IF cls = "Exception" THEN FALSE
    ELSE IsInstance(BaseOf(cls), base)

\* ------------------------------------------------------------------------
\* LLM gateway: OpenAIClient.chat_completion
\* ------------------------------------------------------------------------

\* str(e) of a provider error, as the pieces of its text.
ProviderMessages ==
    { <<"Error code: 400 - ", "context_length_exceeded">>,
      <<"This model's ", "Maximum Context Length", " is 8192 tokens">>,
      <<"Connection error.">>,
      <<"Internal server error">> }

\* str.lower() on the pieces the provider messages are made of.
Lower(s) ==
    CASE s = "Error code: 400 - "     -> "error code: 400 - "
      [] s = "This model's "          -> "this model's "
      [] s = "Maximum Context Length" -> "maximum context length"
      [] s = " is 8192 tokens"        -> " is 8192 tokens"
      [] s = "Connection error."      -> "connection error."
      [] s = "Internal server error"  -> "internal server error"
      [] OTHER                        -> s

\* needle in "".join(pieces).lower(), for a needle that is one piece.
Contains(pieces, needle) ==
    \E i \in 1..Len(pieces) : Lower(pieces[i]) = needle

RECURSIVE Join(_)
Join(pieces) ==
    IF pieces = <<>> THEN "" ELSE Head(pieces) \o Join(Tail(pieces))

Raise(cls, msg) ==
    [kind |-> "raise", cls |-> cls, msg |-> msg, content |-> None, tool_calls |-> <<>>]

Return(content, calls) ==
    [kind |-> "return", cls |-> None, msg |-> "", content |-> content, tool_calls |-> calls]

\* What the except chain of chat_completion makes of a provider exception.
chat_completion(out) ==
    IF out.kind = "return" THEN out
    ELSE IF out.kind = "convert_raise" THEN Raise(out.cls, Join(out.msg))
    ELSE IF IsInstance(out.cls, "AuthenticationError") THEN
        Raise("LLMAuthenticationError",
              "OpenAI API key is invalid. Please check AGENT_OPENAI_API_KEY in .env")
    ELSE IF IsInstance(out.cls, "RateLimitError") THEN
        Raise("LLMRateLimitError", "OpenAI rate limit exceeded. Please try again later.")
    ELSE IF IsInstance(out.cls, "APIError") THEN
        IF Contains(out.msg, "context_length_exceeded")
           \/ Contains(out.msg, "maximum context length")
        THEN Raise("LLMContextLengthError",
                   "Message history too long. Please start a new chat.")
        ELSE Raise("LLMError", "OpenAI API error: " \o Join(out.msg))
    ELSE Raise("LLMError", "Unexpected LLM error: " \o Join(out.msg))


\* What the provider (or the conversion of the messages before the call) does
\* with one call: a reply, or an exception. A reply without tool calls carries
\* tool_calls <<>> (None and the empty list are both falsy).
Contents == {None, "Created your goal."}

CallIds == {"t1", "t2"}

\* The names the model asks for: a goal tool, which the orchestrator always
\* registers, and a name no tool has.
CallNames == {"create_goal", "get_weather"}

\* Argument payloads: a JSON object, JSON that is no object, and no JSON.
ArgStrings == {"{}", "[1]", "{bad"}

RawCalls ==
    [id : CallIds, type : {"function"},
     function : [name : CallNames, arguments : ArgStrings]]

RECURSIVE SeqsUpTo(_, _)
SeqsUpTo(S, n) ==
    IF n = 0 THEN {<<>>}
    ELSE LET shorter == SeqsUpTo(S, n - 1)
         IN shorter \cup {Append(q, x) : q \in {r \in shorter : Len(r) = n - 1}, x \in S}

ProviderError(cls, msg) ==
    [kind |-> "provider_raise", cls |-> cls, msg |-> msg, content |-> None,
     tool_calls |-> <<>>]

ConvertError(cls, msg) ==
    [kind |-> "convert_raise", cls |-> cls, msg |-> msg, content |-> None,
     tool_calls |-> <<>>]

ProviderFailures ==
    {ProviderError("AuthenticationError", <<"Incorrect API key provided">>),
          ProviderError("RateLimitError", <<"Rate limit reached">>)}
    \cup {ProviderError("APIError", m) : m \in ProviderMessages}
    \cup {ProviderError("TimeoutError", m) :
            m \in {<<"Connection error.">>, <<"Request timed out.">>}}
    \cup {ConvertError("TypeError", <<"Object of type UUID is not JSON serializable">>)}

\* The provider asks for tools only when the call offered it some.
ProviderOutcomes(tools) ==
    {Return(c, calls) :
        c \in Contents,
        calls \in IF tools = <<>> THEN {<<>>} ELSE SeqsUpTo(RawCalls, MaxCalls)}
    \cup ProviderFailures

\* ------------------------------------------------------------------------
\* Tool registry: ToolRegistry
\* ------------------------------------------------------------------------

\* The tools AgentOrchestrator._register_goal_tools registers, in its order.
GoalTools ==
    <<"create_goal", "list_goals", "update_goal_status", "update_goal",
      "delete_goal", "link_goal">>

\* Tools somebody else may register on the same registry.
ExtraTools == {"custom_tool"}

Range(q) == {q[i] : i \in 1..Len(q)}

\* dict.__setitem__ on the keys: a new key goes last, a known key keeps its place.
SetItem(keys, name) ==
    IF name \in Range(keys) THEN keys ELSE Append(keys, name)

RECURSIVE RegisterAll(_, _)
RegisterAll(keys, names) ==
    IF names = <<>> THEN keys
    ELSE RegisterAll(SetItem(keys, Head(names)), Tail(names))

get_tool(name) == IF name \in Range(_tools) THEN name ELSE None

get_all_tools == _tools

get_openai_schemas ==
    [i \in 1..Len(_tools) |-> [type |-> "function", name |-> _tools[i]]]

\* json.loads on the argument payloads.
json_loads(s) ==
    CASE s = "{}"  -> [ok |-> TRUE, mapping |-> TRUE, err |-> ""]
      [] s = "[1]" -> [ok |-> TRUE, mapping |-> FALSE, err |-> ""]
      [] OTHER     -> [ok |-> FALSE, mapping |-> FALSE,
                       err |-> "Expecting property name enclosed in double quotes: line 1 column 2 (char 1)"]

\* ToolResult correlated by the tool's name instead of the call's id.
ToolResultByName(tc, payload) ==
    [tool_call_id |-> tc.function.name, name |-> tc.function.name, result |-> payload]

ToolResult(tc, payload) ==
    [tool_call_id |-> tc.id, name |-> tc.function.name, result |-> payload]

\* BeforeExecute with the list of available tools written down once instead of
\* read from the registry.
BeforeExecuteFixedList(tc) ==
    LET function_name == tc.function.name
        arguments == json_loads(tc.function.arguments)
    IN  IF get_tool(function_name) = None THEN
            [raised |-> None, invoke |-> FALSE,
             result |-> ToolResult(tc,
                 [error |-> "Tool '" \o function_name \o "' not found",
                  available_tools |-> GoalTools])]
        ELSE IF ~arguments.ok THEN
            [raised |-> None, invoke |-> FALSE,
             result |-> ToolResult(tc,
                 [error |-> "Invalid JSON arguments: " \o arguments.err])]
        ELSE IF ~arguments.mapping THEN
            [raised |-> None, invoke |-> FALSE,
             result |-> ToolResult(tc,
                 [error |-> "Tool execution failed: argument after ** must be a mapping, not list",
                  tool |-> function_name])]
        ELSE [raised |-> None, invoke |-> TRUE,
              result |-> ToolResult(tc, [pending |-> TRUE])]

\* execute_tool_call up to the point where the tool's execute is awaited:
\* the result it returns without running the tool, or "invoke"; raised names
\* the exception it lets through, if any.
BeforeExecute(tc) ==
    LET function_name == tc.function.name
        arguments == json_loads(tc.function.arguments)
    IN  IF get_tool(function_name) = None THEN
            [raised |-> None, invoke |-> FALSE,
             result |-> ToolResult(tc,
                 [error |-> "Tool '" \o function_name \o "' not found",
                  available_tools |-> _tools])]
        ELSE IF ~arguments.ok THEN
            [raised |-> None, invoke |-> FALSE,
             result |-> ToolResult(tc,
                 [error |-> "Invalid JSON arguments: " \o arguments.err])]
        ELSE IF ~arguments.mapping THEN
            \* tool.execute(**arguments) raises TypeError inside the try block
            [raised |-> None, invoke |-> FALSE,
             result |-> ToolResult(tc,
                 [error |-> "Tool execution failed: argument after ** must be a mapping, not list",
                  tool |-> function_name])]
        ELSE [raised |-> None, invoke |-> TRUE,
              result |-> ToolResult(tc, [pending |-> TRUE])]

\* What a tool's execute does: returns its result or raises.
ToolOutcomes ==
    { [kind |-> "return", cls |-> None, msg |-> ""],
      [kind |-> "raise", cls |-> "RuntimeError", msg |-> "database is unavailable"] }

\* AfterExecute without the except clause around the tool's execute.
AfterExecuteNoCatch(tc, outcome) ==
    IF outcome.kind = "return" THEN
        [raised |-> None, result |-> ToolResult(tc, [success |-> TRUE])]
    ELSE
        [raised |-> outcome.cls, result |-> ToolResult(tc, [pending |-> TRUE])]

\* execute_tool_call after the tool's execute has returned or raised.
AfterExecute(tc, outcome) ==
    IF outcome.kind = "return" THEN
        [raised |-> None, result |-> ToolResult(tc, [success |-> TRUE])]
    ELSE
        [raised |-> None,
         result |-> ToolResult(tc, [error |-> "Tool execution failed: " \o outcome.msg,
                                    tool |-> tc.function.name])]

\* NextCall going through the list from its end.
NextCallReversed == Len(tool_calls) - Len(tool_results)

\* The call execute_tool_calls handles next: the loop goes through the list in order.
NextCall == Len(tool_results) + 1


\* ------------------------------------------------------------------------
\* Orchestrator: AgentOrchestrator
\* ------------------------------------------------------------------------

AgentMessage(role, content, data) ==
    [role |-> role, content |-> content, tool_call_data |-> data]

\* The chat histories and the user message a request carries.
Histories ==
    { <<>>,
      <<AgentMessage("user", "Hello", <<>>), AgentMessage("assistant", "Hi there!", <<>>)>> }

UserMessages == {AgentMessage("user", "How are you?", <<>>)}

NoFailure == [at |-> "none", cls |-> None, msg |-> ""]

NoReply == [content |-> None, tool_calls |-> <<>>]

NoResponse == [content |-> None, tool_metadata |-> <<>>]

\* AgentResponse(content=..., tool_metadata=...)
AgentResponse(content, metadata) == [content |-> content, tool_metadata |-> metadata]

\* OrEmpty without the fallback.
OrEmptyMissing(x) == x

\* x or ""
OrEmpty(x) == IF x = None THEN "" ELSE x

\* ExceptChain without the last clause, except Exception.
ExceptChainNoGeneric(exc) ==
    IF IsInstance(exc.cls, "LLMAuthenticationError") THEN
        [escaped |-> None,
         response |-> AgentResponse(
             "Configuration error: Invalid OpenAI API key. Please contact support.", <<>>)]
    ELSE IF IsInstance(exc.cls, "LLMRateLimitError") THEN
        [escaped |-> None,
         response |-> AgentResponse(
             "Too many requests. Please wait a moment and try again.", <<>>)]
    ELSE IF IsInstance(exc.cls, "LLMError") THEN
        [escaped |-> None,
         response |-> AgentResponse("Sorry, I encountered an error: " \o exc.msg, <<>>)]
    ELSE [escaped |-> exc.cls, response |-> NoResponse]

\* ExceptChain without the clause for LLMRateLimitError.
ExceptChainNoRateLimit(exc) ==
    IF IsInstance(exc.cls, "LLMAuthenticationError") THEN
        [escaped |-> None,
         response |-> AgentResponse(
             "Configuration error: Invalid OpenAI API key. Please contact support.", <<>>)]
    ELSE IF IsInstance(exc.cls, "LLMError") THEN
        [escaped |-> None,
         response |-> AgentResponse("Sorry, I encountered an error: " \o exc.msg, <<>>)]
    ELSE
        [escaped |-> None,
         response |-> AgentResponse("An unexpected error occurred. Please try again.", <<>>)]

\* The except chain of process: the response it returns for an exception, or
\* the exception it lets through.
ExceptChain(exc) ==
    IF IsInstance(exc.cls, "LLMAuthenticationError") THEN
        [escaped |-> None,
         response |-> AgentResponse(
             "Configuration error: Invalid OpenAI API key. Please contact support.", <<>>)]
    ELSE IF IsInstance(exc.cls, "LLMRateLimitError") THEN
        [escaped |-> None,
         response |-> AgentResponse(
             "Too many requests. Please wait a moment and try again.", <<>>)]
    ELSE IF IsInstance(exc.cls, "LLMError") THEN
        [escaped |-> None,
         response |-> AgentResponse("Sorry, I encountered an error: " \o exc.msg, <<>>)]
    ELSE IF IsInstance(exc.cls, "Exception") THEN
        [escaped |-> None,
         response |-> AgentResponse("An unexpected error occurred. Please try again.", <<>>)]
    ELSE [escaped |-> exc.cls, response |-> NoResponse]

\* The tools argument of the first call.
FirstCallTools == IF get_all_tools # <<>> THEN <<get_openai_schemas>> ELSE <<>>

\* SecondCallTools offering the tools again.
SecondCallToolsOffered == FirstCallTools

\* The tools argument of the second call: chat_completion's default.
SecondCallTools == <<>>

\* The messages _execute_tool_calls adds for the second call.
ToolMessages ==
    << AgentMessage("assistant", first_reply.content,
                    <<[tool_calls |-> tool_calls, tool_results |-> tool_results]>>) >>

\* The tool metadata of the response after the second call.
ToolCallMetadata == <<[tool_calls |-> tool_calls, tool_results |-> tool_results]>>

LlmCall(messages, tools) ==
    [messages |-> messages, system_message |-> "You are a helpful assistant.",
     tools |-> tools]

AgentInit(prior) ==
    /\ _tools = RegisterAll(prior, GoalTools)
    /\ caller = "process"
    /\ pc = "idle"
    /\ request = <<>>
    /\ llm_calls = <<>>
    /\ first_reply = NoReply
    /\ tool_calls = <<>>
    /\ tool_results = <<>>
    /\ running = FALSE
    /\ events = <<>>
    /\ response = NoResponse
    /\ escaped = None
    /\ failure = NoFailure

\* ToolRegistry.register
register(name) ==
    /\ _tools' = SetItem(_tools, name)
    /\ _tools' # _tools
    /\ UNCHANGED <<caller, pc, request, llm_calls, first_reply, tool_calls, tool_results,
                   running, events, response, escaped, failure>>
    /\ UNCHANGED <<lifeVars, registryVars, cacheVars, sessionVars>>

\* process up to the first gateway call
process(history, user_message) ==
    /\ pc = "idle"
    /\ caller' = "process"
    /\ request' = <<[chat_history |-> history, user_message |-> user_message]>>
    /\ llm_calls' = <<LlmCall(history \o <<user_message>>, FirstCallTools)>>
    /\ events' = << <<"llm", 1>> >>
    /\ pc' = "dispatch1"
    /\ UNCHANGED <<_tools, first_reply, tool_calls, tool_results, running, response,
                   escaped, failure>>
    /\ UNCHANGED <<lifeVars, registryVars, cacheVars, sessionVars>>

\* ToolRegistry.execute_tool_calls called on its own
execute_tool_calls(calls) ==
    /\ pc = "idle"
    /\ caller' = "direct"
    /\ tool_calls' = calls
    /\ pc' = "tools"
    /\ UNCHANGED <<_tools, request, llm_calls, first_reply, tool_results, running, events,
                   response, escaped, failure>>
    /\ UNCHANGED <<lifeVars, registryVars, cacheVars, sessionVars>>

\* a process whose except chain covers the first call only
FailFirstCallOnly(at, exc) ==
    /\ response' = IF caller = "process" /\ at = "dispatch1"
                   THEN ExceptChain(exc).response ELSE NoResponse
    /\ escaped' = IF caller = "process" /\ at = "dispatch1"
                  THEN ExceptChain(exc).escaped ELSE exc.cls
    /\ failure' = [at |-> at, cls |-> exc.cls, msg |-> exc.msg]
    /\ pc' = "done"

\* an exception leaves the try block of process (or, for a bare registry call,
\* reaches the caller)
Fail(at, exc) ==
    /\ response' = IF caller = "process" THEN ExceptChain(exc).response ELSE NoResponse
    /\ escaped' = IF caller = "process" THEN ExceptChain(exc).escaped ELSE exc.cls
    /\ failure' = [at |-> at, cls |-> exc.cls, msg |-> exc.msg]
    /\ pc' = "done"

\* the first gateway call returns or raises
FirstReply ==
    /\ pc = "dispatch1"
    /\ \E out \in ProviderOutcomes(llm_calls[1].tools) :
       LET r == chat_completion(out)
       IN  IF r.kind = "raise" THEN
               /\ Fail("dispatch1", r)
               /\ UNCHANGED <<first_reply, tool_calls>>
           ELSE IF r.tool_calls # <<>> THEN
               /\ first_reply' = [content |-> r.content, tool_calls |-> r.tool_calls]
               /\ tool_calls' = r.tool_calls
               /\ pc' = "tools"
               /\ UNCHANGED <<response, escaped, failure>>
           ELSE
               /\ first_reply' = [content |-> r.content, tool_calls |-> r.tool_calls]
               /\ response' = AgentResponse(OrEmpty(r.content), <<>>)
               /\ pc' = "done"
               /\ UNCHANGED <<tool_calls, escaped, failure>>
    /\ UNCHANGED <<_tools, caller, request, llm_calls, tool_results, running, events>>
    /\ UNCHANGED <<lifeVars, registryVars, cacheVars, sessionVars>>

\* execute_tool_calls takes the next call: execute_tool_call up to its await
ExecuteToolCall ==
    /\ pc = "tools"
    /\ ~running
    /\ Len(tool_results) < Len(tool_calls)
    /\ LET tc == tool_calls[NextCall]
           before == BeforeExecute(tc)
       IN  IF before.raised # None THEN
               /\ Fail("tools", Raise(before.raised, ""))
               /\ UNCHANGED <<running, events, tool_results>>
           ELSE IF before.invoke THEN
               /\ running' = TRUE
               /\ events' = Append(events, <<"start", NextCall>>)
               /\ UNCHANGED <<tool_results, pc, response, escaped, failure>>
           ELSE
               /\ tool_results' = Append(tool_results, before.result)
               /\ UNCHANGED <<running, events, pc, response, escaped, failure>>
    /\ UNCHANGED <<_tools, caller, request, llm_calls, first_reply, tool_calls>>
    /\ UNCHANGED <<lifeVars, registryVars, cacheVars, sessionVars>>

\* the tool's execute returns or raises: the rest of execute_tool_call
ToolDone(outcome) ==
    /\ pc = "tools"
    /\ running
    /\ running' = FALSE
    /\ events' = Append(events, <<outcome.kind, NextCall>>)
    /\ LET after == AfterExecute(tool_calls[NextCall], outcome)
       IN  IF after.raised # None THEN
               /\ Fail("tools", Raise(after.raised, outcome.msg))
               /\ UNCHANGED tool_results
           ELSE
               /\ tool_results' = Append(tool_results, after.result)
               /\ UNCHANGED <<pc, response, escaped, failure>>
    /\ UNCHANGED <<_tools, caller, request, llm_calls, first_reply, tool_calls>>
    /\ UNCHANGED <<lifeVars, registryVars, cacheVars, sessionVars>>

\* execute_tool_calls has gone through the list
ToolsReturned == pc = "tools" /\ ~running /\ Len(tool_results) >= Len(tool_calls)

\* a bare execute_tool_calls returns its results
ReturnResults ==
    /\ ToolsReturned
    /\ caller = "direct"
    /\ pc' = "done"
    /\ UNCHANGED <<_tools, caller, request, llm_calls, first_reply, tool_calls,
                   tool_results, running, events, response, escaped, failure>>
    /\ UNCHANGED <<lifeVars, registryVars, cacheVars, sessionVars>>

\* _execute_tool_calls after the tools: the second gateway call is made
SecondCall ==
    /\ ToolsReturned
    /\ caller = "process"
    /\ llm_calls' = Append(llm_calls,
                           LlmCall(llm_calls[1].messages \o ToolMessages, SecondCallTools))
    /\ events' = Append(events, <<"llm", 2>>)
    /\ pc' = "dispatch2"
    /\ UNCHANGED <<_tools, caller, request, first_reply, tool_calls, tool_results, running,
                   response, escaped, failure>>
    /\ UNCHANGED <<lifeVars, registryVars, cacheVars, sessionVars>>

\* the second gateway call returns or raises
SecondReply ==
    /\ pc = "dispatch2"
    /\ \E out \in ProviderOutcomes(llm_calls[2].tools) :
       LET r == chat_completion(out)
       IN  IF r.kind = "raise" THEN
               Fail("dispatch2", r)
           ELSE
               /\ response' = AgentResponse(OrEmpty(r.content), ToolCallMetadata)
               /\ pc' = "done"
               /\ UNCHANGED <<escaped, failure>>
    /\ UNCHANGED <<_tools, caller, request, llm_calls, first_reply, tool_calls,
                   tool_results, running, events>>
    /\ UNCHANGED <<lifeVars, registryVars, cacheVars, sessionVars>>

\* the caller has the result; the orchestrator is ready for the next request
Finish ==
    /\ pc = "done"
    /\ pc' = "idle"
    /\ caller' = "process"
    /\ request' = <<>>
    /\ llm_calls' = <<>>
    /\ first_reply' = NoReply
    /\ tool_calls' = <<>>
    /\ tool_results' = <<>>
    /\ running' = FALSE
    /\ events' = <<>>
    /\ response' = NoResponse
    /\ escaped' = None
    /\ failure' = NoFailure
    /\ UNCHANGED _tools
    /\ UNCHANGED <<lifeVars, registryVars, cacheVars, sessionVars>>

Next ==
    \/ \E name \in ExtraTools : register(name)
    \/ \E h \in Histories, m \in UserMessages : process(h, m)
    \/ \E calls \in SeqsUpTo(RawCalls, MaxCalls) : execute_tool_calls(calls)
    \/ FirstReply
    \/ ExecuteToolCall
    \/ \E outcome \in ToolOutcomes : ToolDone(outcome)
    \/ ReturnResults
    \/ SecondCall
    \/ SecondReply
    \/ Finish

\* ------------------------------------------------------------------------
\* Message store and history cache: MessageRepository, ChatCacheService,
\* MessageService
\* ------------------------------------------------------------------------

\* The chats of the chats table, and a chat id that table does not have.
Chats == {"c1", "c2"}

ChatIds == Chats \cup {"c0"}

\* The tasks that may be inside a MessageService call.
Workers == {"w1", "w2"}

Roles == {"user", "assistant"}

\* The primary keys the database gives to new messages, in this order.
MessageIds == [i \in 1..16 |-> "m" \o ToString(i)]

\* Message(chat_id=..., role=..., content=...) as the insert leaves it
Message(chat_id, role, content) ==
    [id |-> MessageIds[Len(db_messages) + 1], chat_id |-> chat_id, role |-> role,
     content |-> content, created_at |-> Len(db_messages) + 1]

\* get_chat_messages with order_by created_at desc
get_chat_messages_desc(chat_id) ==
    LET rows == SelectSeq(db_messages, LAMBDA m : m.chat_id = chat_id)
    IN  [i \in 1..Len(rows) |-> rows[Len(rows) + 1 - i]]

\* MessageRepository.get_chat_messages without limit and offset
get_chat_messages(chat_id) ==
    SelectSeq(db_messages, LAMBDA m : m.chat_id = chat_id)

\* q[-n:] for n > 0
LastN(q, n) == IF Len(q) <= n THEN q ELSE SubSeq(q, Len(q) - n + 1, Len(q))

\* get_recent_messages without its reversed(): newest first
get_recent_messages_newest_first(chat_id, limit) ==
    LET recent == LastN(get_chat_messages(chat_id), limit)
    IN  [i \in 1..Len(recent) |-> recent[Len(recent) + 1 - i]]

\* MessageRepository.get_recent_messages
get_recent_messages(chat_id, limit) == LastN(get_chat_messages(chat_id), limit)

\* datetime.isoformat() as model_dump(mode='json') writes a created_at
isoformat(n) == "2025-10-25T10:00:" \o ToString(n) \o "+00:00"

\* the datetime pydantic reads back from that text
fromisoformat(text) == CHOOSE n \in 1..16 : isoformat(n) = text

\* MessageSchema.model_validate(message): the schema's fields, from the
\* attributes of a Message
MessageSchema(m) ==
    [id |-> m.id, chat_id |-> m.chat_id, role |-> m.role, content |-> m.content,
     created_at |-> m.created_at]

\* schema.model_dump(mode='json')
model_dump(schema) ==
    [id |-> schema.id, chat_id |-> schema.chat_id, role |-> schema.role,
     content |-> schema.content, created_at |-> isoformat(schema.created_at)]

\* ChatCacheService._message_to_dict, json.dumps and the json.loads that
\* reads the list entry back
_message_to_dict(m) == model_dump(MessageSchema(m))

\* ChatCacheService._dict_to_message_data: MessageSchema.model_validate(data)
_dict_to_message_data(d) ==
    [id |-> d.id, chat_id |-> d.chat_id, role |-> d.role, content |-> d.content,
     created_at |-> fromisoformat(d.created_at)]

Map(q, F(_)) == [i \in 1..Len(q) |-> F(q[i])]

Idle == [op |-> "idle"]

\* A call that has ended. cache tells what the call did with the cache:
\* "ok" (its write went through), "failed" (its write raised), "hit",
\* "skipped" (nothing to write), "read_failed", or "none".
Returned(op, value) ==
    [op |-> op, step |-> "done", outcome |-> "return", value |-> value, cache |-> "ok"]

Raised(op, cls) ==
    [op |-> op, step |-> "done", outcome |-> "raise", value |-> <<cls>>, cache |-> "none"]

\* a write to the cache raised, and the service lets the exception through
AfterCacheFailureRaises(r) ==
    [r EXCEPT !.outcome = "raise", !.value = <<"RedisError">>, !.cache = "failed"]

\* a write to the cache raised: the except clause of create_message or of
\* get_chat_history logs the exception, and the call returns what it had
AfterCacheFailure(r) == [r EXCEPT !.cache = "failed"]

\* the chat a get_chat_history call is about, whether it missed the cache,
\* and what the call just before it returned
CallOf(w) == [chat_id |-> task[w].chat_id, miss |-> task[w].miss, prev |-> task[w].prev]

\* create_message up to the cache: the chat is looked up, the message inserted
\* and committed
create_message(w, chat_id, role, content) ==
    /\ task[w] = Idle
    /\ Len(db_messages) < MaxMessages
    /\ IF chat_id \notin Chats THEN
           /\ task' = [task EXCEPT ![w] = Raised("create_message", "NotFoundException")]
           /\ UNCHANGED db_messages
       ELSE
           /\ db_messages' = Append(db_messages, Message(chat_id, role, content))
           /\ task' = [task EXCEPT ![w] =
                  [op |-> "create_message", step |-> "rpush",
                   message |-> Message(chat_id, role, content)]]
    /\ UNCHANGED <<redis, redis_ttl>>
    /\ UNCHANGED <<lifeVars, registryVars, agentVars, sessionVars>>

\* add_message: redis.rpush(key, message_json)
AddRpush(w, ok) ==
    /\ task[w].op = "create_message"
    /\ task[w].step = "rpush"
    /\ LET m == task[w].message
       IN  IF ok THEN
               /\ redis' = [redis EXCEPT ![m.chat_id] = Append(@, _message_to_dict(m))]
               /\ task' = [task EXCEPT ![w].step = "ltrim"]
           ELSE
               \* the exception is logged by create_message, which returns the message
               /\ task' = [task EXCEPT ![w] =
                      AfterCacheFailure(Returned("create_message", <<m>>))]
               /\ UNCHANGED redis
    /\ UNCHANGED <<db_messages, redis_ttl>>
    /\ UNCHANGED <<lifeVars, registryVars, agentVars, sessionVars>>

\* add_message: redis.ltrim(key, -max_messages, -1)
AddLtrim(w, ok) ==
    /\ task[w].op = "create_message"
    /\ task[w].step = "ltrim"
    /\ LET m == task[w].message
       IN  IF ok THEN
               /\ redis' = [redis EXCEPT ![m.chat_id] = LastN(@, max_messages)]
               /\ redis_ttl' = [redis_ttl EXCEPT ![m.chat_id] = @ /\ redis'[m.chat_id] # <<>>]
               /\ task' = [task EXCEPT ![w].step = "expire"]
           ELSE
               /\ task' = [task EXCEPT ![w] =
                      AfterCacheFailure(Returned("create_message", <<m>>))]
               /\ UNCHANGED <<redis, redis_ttl>>
    /\ UNCHANGED db_messages
    /\ UNCHANGED <<lifeVars, registryVars, agentVars, sessionVars>>

\* add_message: redis.expire(key, ttl); create_message returns the message
AddExpire(w, ok) ==
    /\ task[w].op = "create_message"
    /\ task[w].step = "expire"
    /\ LET m == task[w].message
       IN  /\ redis_ttl' = [redis_ttl EXCEPT ![m.chat_id] =
                                IF ok THEN redis[m.chat_id] # <<>> ELSE @]
           /\ task' = [task EXCEPT ![w] =
                  IF ok THEN Returned("create_message", <<m>>)
                  ELSE AfterCacheFailure(Returned("create_message", <<m>>))]
    /\ UNCHANGED <<db_messages, redis>>
    /\ UNCHANGED <<lifeVars, registryVars, agentVars, sessionVars>>

\* get_chat_history with use_cache=False: straight to the database
\* get_chat_history with use_cache=True: get_messages is awaited first
get_chat_history(w, chat_id, use_cache) ==
    /\ task[w] = Idle
    /\ task' = [task EXCEPT ![w] =
           [op |-> "get_chat_history", step |-> IF use_cache THEN "lrange" ELSE "select",
            chat_id |-> chat_id, messages |-> <<>>, miss |-> FALSE, prev |-> <<>>]]
    /\ UNCHANGED <<db_messages, redis, redis_ttl>>
    /\ UNCHANGED <<lifeVars, registryVars, agentVars, sessionVars>>

\* get_messages: redis.lrange(key, 0, -1); a hit is returned
GetLrange(w, ok) ==
    /\ task[w].op = "get_chat_history"
    /\ task[w].step = "lrange"
    /\ LET messages_json == redis[task[w].chat_id]
       IN  IF ~ok THEN
               \* nothing catches the exception of get_messages
               task' = [task EXCEPT ![w] =
                   CallOf(w) @@ [Raised("get_chat_history", "RedisError")
                                    EXCEPT !.cache = "read_failed"]]
           ELSE IF messages_json # <<>> THEN
               task' = [task EXCEPT ![w] =
                   CallOf(w) @@ [Returned("get_chat_history",
                                          Map(messages_json, _dict_to_message_data))
                                    EXCEPT !.cache = "hit"]]
           ELSE
               task' = [task EXCEPT ![w].step = "select", ![w].miss = TRUE]
    /\ UNCHANGED <<db_messages, redis, redis_ttl>>
    /\ UNCHANGED <<lifeVars, registryVars, agentVars, sessionVars>>

\* the cache missed: message_repo.get_recent_messages
GetSelect(w) ==
    /\ task[w].op = "get_chat_history"
    /\ task[w].step = "select"
    /\ LET messages == get_recent_messages(task[w].chat_id, max_messages)
       IN  IF messages # <<>> THEN
               task' = [task EXCEPT ![w].step = "delete", ![w].messages = messages]
           ELSE
               task' = [task EXCEPT ![w] =
                   CallOf(w) @@ [Returned("get_chat_history", <<>>)
                                    EXCEPT !.cache = "skipped"]]
    /\ UNCHANGED <<db_messages, redis, redis_ttl>>
    /\ UNCHANGED <<lifeVars, registryVars, agentVars, sessionVars>>

\* what get_chat_history returns after the database read
HistoryReturned(w) ==
    CallOf(w) @@ Returned("get_chat_history", Map(task[w].messages, MessageSchema))

\* set_messages: redis.delete(key)
SetDelete(w, ok) ==
    /\ task[w].op = "get_chat_history"
    /\ task[w].step = "delete"
    /\ IF ok THEN
           /\ redis' = [redis EXCEPT ![task[w].chat_id] = <<>>]
           /\ redis_ttl' = [redis_ttl EXCEPT ![task[w].chat_id] = FALSE]
           /\ task' = [task EXCEPT ![w].step = "rpush_all"]
       ELSE
           /\ task' = [task EXCEPT ![w] = AfterCacheFailure(HistoryReturned(w))]
           /\ UNCHANGED <<redis, redis_ttl>>
    /\ UNCHANGED db_messages
    /\ UNCHANGED <<lifeVars, registryVars, agentVars, sessionVars>>

\* set_messages: redis.rpush(key, *messages_json) with the last max_messages
SetRpush(w, ok) ==
    /\ task[w].op = "get_chat_history"
    /\ task[w].step = "rpush_all"
    /\ IF ok THEN
           /\ redis' = [redis EXCEPT ![task[w].chat_id] =
                  @ \o Map(LastN(task[w].messages, max_messages), _message_to_dict)]
           /\ task' = [task EXCEPT ![w].step = "expire_all"]
       ELSE
           /\ task' = [task EXCEPT ![w] = AfterCacheFailure(HistoryReturned(w))]
           /\ UNCHANGED redis
    /\ UNCHANGED <<db_messages, redis_ttl>>
    /\ UNCHANGED <<lifeVars, registryVars, agentVars, sessionVars>>

\* set_messages: redis.expire(key, ttl); get_chat_history returns
SetExpire(w, ok) ==
    /\ task[w].op = "get_chat_history"
    /\ task[w].step = "expire_all"
    /\ redis_ttl' = [redis_ttl EXCEPT ![task[w].chat_id] =
                         IF ok THEN redis[task[w].chat_id] # <<>> ELSE @]
    /\ task' = [task EXCEPT ![w] =
           IF ok THEN HistoryReturned(w) ELSE AfterCacheFailure(HistoryReturned(w))]
    /\ UNCHANGED <<db_messages, redis>>
    /\ UNCHANGED <<lifeVars, registryVars, agentVars, sessionVars>>

\* the caller takes the result of get_chat_history and calls it once more for
\* the same chat, with the default use_cache
get_chat_history_again(w) ==
    /\ task[w].op = "get_chat_history"
    /\ task[w].step = "done"
    /\ task[w].outcome = "return"
    /\ task[w].prev = <<>>
    /\ task' = [task EXCEPT ![w] =
           [op |-> "get_chat_history", step |-> "lrange", chat_id |-> task[w].chat_id,
            messages |-> <<>>, miss |-> FALSE,
            prev |-> <<[value |-> task[w].value, miss |-> task[w].miss,
                        cache |-> task[w].cache]>>]]
    /\ UNCHANGED <<db_messages, redis, redis_ttl>>
    /\ UNCHANGED <<lifeVars, registryVars, agentVars, sessionVars>>

\* clear_chat_cache: redis.delete(key)
clear_chat_cache(w, chat_id, ok) ==
    /\ task[w] = Idle
    /\ IF ok THEN
           /\ redis' = [redis EXCEPT ![chat_id] = <<>>]
           /\ redis_ttl' = [redis_ttl EXCEPT ![chat_id] = FALSE]
           /\ task' = [task EXCEPT ![w] = Returned("clear_chat_cache", <<>>)]
       ELSE
           /\ task' = [task EXCEPT ![w] = Raised("clear_chat_cache", "RedisError")]
           /\ UNCHANGED <<redis, redis_ttl>>
    /\ UNCHANGED db_messages
    /\ UNCHANGED <<lifeVars, registryVars, agentVars, sessionVars>>

\* the caller takes the result of the call
TaskEnds(w) ==
    /\ task[w].op # "idle"
    /\ task[w].step = "done"
    /\ task' = [task EXCEPT ![w] = Idle]
    /\ UNCHANGED <<db_messages, redis, redis_ttl>>
    /\ UNCHANGED <<lifeVars, registryVars, agentVars, sessionVars>>

\* Redis drops a key whose time to live has run out
KeyExpires(chat_id) ==
    /\ redis_ttl[chat_id]
    /\ redis' = [redis EXCEPT ![chat_id] = <<>>]
    /\ redis_ttl' = [redis_ttl EXCEPT ![chat_id] = FALSE]
    /\ UNCHANGED <<db_messages, task>>
    /\ UNCHANGED <<lifeVars, registryVars, agentVars, sessionVars>>

CacheStep(w) ==
    \/ \E c \in ChatIds, r \in Roles : create_message(w, c, r, "Hello")
    \/ \E ok \in BOOLEAN : AddRpush(w, ok)
    \/ \E ok \in BOOLEAN : AddLtrim(w, ok)
    \/ \E ok \in BOOLEAN : AddExpire(w, ok)
    \/ \E c \in Chats, use_cache \in BOOLEAN : get_chat_history(w, c, use_cache)
    \/ \E ok \in BOOLEAN : GetLrange(w, ok)
    \/ GetSelect(w)
    \/ \E ok \in BOOLEAN : SetDelete(w, ok)
    \/ \E ok \in BOOLEAN : SetRpush(w, ok)
    \/ \E ok \in BOOLEAN : SetExpire(w, ok)
    \/ get_chat_history_again(w)
    \/ \E c \in Chats, ok \in BOOLEAN : clear_chat_cache(w, c, ok)
    \/ TaskEnds(w)

\* One MessageService call at a time.
CacheNext ==
    \/ CacheStep("w1")
    \/ \E c \in Chats : KeyExpires(c)

\* ------------------------------------------------------------------------
\* WebSocket sessions: ConnectionManager, ChatWebSocketHandler,
\* BaseWebSocketHandler / DemoWebSocketHandler, ChatSessionService
\* ------------------------------------------------------------------------

\* The one websocket of the session under study.
Socket == "ws1"

\* The users of the users table; ChatOwner is chats.user_id.
Users == {"u1", "u2"}

\* a get_chat that only looks the chat up
ChatOwnerUnchecked == [c \in Chats |-> "u1"]

ChatOwner == [c \in Chats |-> IF c = "c1" THEN "u1" ELSE "u2"]

\* What DemoWebSocketHandler.setup_session creates.
DemoUser == "demo1"

DemoChat == "d1"

\* The text frames a client sends.
FrameTexts ==
    { "{\"type\": \"message\", \"content\": \" Hi \"}",
      "{\"type\": \"message\", \"content\": \"  \"}",
      "{\"type\": \"message\"}",
      "{\"type\": \"ping\"}",
      "{\"type\": \"subscribe\"}",
      "{bad",
      "[1]" }

\* A JSON string value, character by character, and JSON's null.
Str(chars) == [t |-> "str", chars |-> chars]

Null == [t |-> "null"]

\* json.loads on a frame: ok is FALSE for a JSONDecodeError; a JSON object
\* becomes a dict, here a function from its keys.
loads(text) ==
    CASE text = "{\"type\": \"message\", \"content\": \" Hi \"}" ->
             [ok |-> TRUE, is_dict |-> TRUE,
              value |-> [type |-> "message", content |-> Str(<<" ", "H", "i", " ">>)]]
      [] text = "{\"type\": \"message\", \"content\": \"  \"}" ->
             [ok |-> TRUE, is_dict |-> TRUE,
              value |-> [type |-> "message", content |-> Str(<<" ", " ">>)]]
      [] text = "{\"type\": \"message\"}" ->
             [ok |-> TRUE, is_dict |-> TRUE, value |-> [type |-> "message"]]
      [] text = "{\"type\": \"message\", \"content\": null}" ->
             [ok |-> TRUE, is_dict |-> TRUE, value |-> [type |-> "message", content |-> Null]]
      [] text = "{\"type\": \"ping\"}" ->
             [ok |-> TRUE, is_dict |-> TRUE, value |-> [type |-> "ping"]]
      [] text = "{\"type\": \"subscribe\"}" ->
             [ok |-> TRUE, is_dict |-> TRUE, value |-> [type |-> "subscribe"]]
      [] text = "[1]" ->
             [ok |-> TRUE, is_dict |-> FALSE, value |-> <<>>]
      [] OTHER ->
             [ok |-> FALSE, is_dict |-> FALSE, value |-> <<>>]

\* dict.get(key, default)
DictGet(d, key, default) == IF key \in DOMAIN d THEN d[key] ELSE default

Whitespace == {" ", "\t", "\n"}

RECURSIVE lstrip(_)
lstrip(chars) ==
    IF chars # <<>> /\ Head(chars) \in Whitespace THEN lstrip(Tail(chars)) ELSE chars

RECURSIVE rstrip(_)
rstrip(chars) ==
    IF chars # <<>> /\ chars[Len(chars)] \in Whitespace
    THEN rstrip(SubSeq(chars, 1, Len(chars) - 1))
    ELSE chars

\* content taken as it came, without strip()
unstripped(chars) == chars

\* str.strip()
strip(chars) == rstrip(lstrip(chars))

\* The frames a handler sends.
ErrorFrame(error) == [type |-> "error", error |-> error]

\* a ping answered with a ping
PingEchoed == [type |-> "ping"]

\* handle_ping: {"type": "pong"}
PongFrame == [type |-> "pong"]

\* send_message: MessageSchema.model_validate(message).model_dump(mode='json')
MessageFrame(message) == [type |-> "message", data |-> _message_to_dict(message)]

\* send_history: the dumps of the schemas get_chat_history returned
HistoryFrame(messages) == [type |-> "history", messages |-> Map(messages, model_dump)]

\* a handle_message that lets a type it does not know pass in silence
UnknownTypeIgnored(message_type) ==
    [to |-> "receive", in_try |-> TRUE, error |-> "", content |-> ""]

\* handle_message's else branch: send_error(f"Unknown message type: {message_type}")
UnknownType(message_type) ==
    [to |-> "send_error", in_try |-> TRUE,
     error |-> "Unknown message type: " \o message_type, content |-> ""]

\* What handle_message does with a received text up to its first await:
\* the step the handler is at next, with the error text or the content.
Dispatch(text) ==
    LET parsed == loads(text)
        data == parsed.value
        message_type == DictGet(data, "type", None)
        content == DictGet(data, "content", Str(<<>>))
    IN  IF ~parsed.ok THEN
            [to |-> "send_error", in_try |-> FALSE, error |-> "Invalid JSON format",
             content |-> ""]
        ELSE IF ~parsed.is_dict THEN
            \* 'list' object has no attribute 'get'
            [to |-> "send_error", in_try |-> FALSE, error |-> "Failed to process message",
             content |-> ""]
        ELSE IF message_type = "message" THEN
            IF content.t # "str" THEN
                \* 'NoneType' object has no attribute 'strip'
                [to |-> "send_error", in_try |-> FALSE,
                 error |-> "Failed to process message", content |-> ""]
            ELSE IF strip(content.chars) = <<>> THEN
                [to |-> "send_error", in_try |-> TRUE,
                 error |-> "Message content cannot be empty", content |-> ""]
            ELSE
                [to |-> "persist_user", in_try |-> TRUE, error |-> "",
                 content |-> Join(strip(content.chars))]
        ELSE IF message_type = "ping" THEN
            [to |-> "send_pong", in_try |-> TRUE, error |-> "", content |-> ""]
        ELSE
            UnknownType(message_type)

\* add_message with a trim that keeps the head of the list
add_message_keeps_head(list, m, fail) ==
    CASE fail = "rpush" -> list
      [] fail = "ltrim" -> Append(list, _message_to_dict(m))
      [] OTHER          -> SubSeq(Append(list, _message_to_dict(m)), 1,
                                  IF Len(list) + 1 < max_messages THEN Len(list) + 1
                                  ELSE max_messages)

\* ChatCacheService.add_message on a list, when the Redis command named by
\* fail raises ("none": all three commands go through).
add_message(list, m, fail) ==
    CASE fail = "rpush" -> list
      [] fail = "ltrim" -> Append(list, _message_to_dict(m))
      [] OTHER          -> LastN(Append(list, _message_to_dict(m)), max_messages)

\* whether the key has an expiry after add_message
add_message_ttl(ttl, fail) == IF fail = "none" THEN TRUE ELSE ttl

\* The ways a MessageService.create_message call of a session goes: the
\* insert fails, or rpush or ltrim of add_message fails, or nothing does.
CreateFailures == {"none", "db", "rpush", "ltrim"}

\* MessageService.get_chat_history(chat_id) as one step: what it returns or
\* raises, and the list and expiry it leaves in Redis.
GetChatHistory(chat_id, fail) ==
    LET cached == redis[chat_id]
        messages == get_recent_messages(chat_id, max_messages)
        to_cache == Map(LastN(messages, max_messages), _message_to_dict)
        same == [raised |-> None, value |-> <<>>, list |-> cached, ttl |-> redis_ttl[chat_id],
                 set |-> "skipped"]
    IN  IF fail = "lrange" THEN [same EXCEPT !.raised = "RedisError"]
        ELSE IF cached # <<>> THEN [same EXCEPT !.value = Map(cached, _dict_to_message_data)]
        ELSE IF messages = <<>> THEN same
        ELSE [raised |-> None,
              value |-> Map(messages, MessageSchema),
              set |-> IF fail = "lrange" THEN "none" ELSE fail,
              list |-> CASE fail = "delete" -> cached
                         [] fail = "rpush" -> <<>>
                         [] OTHER -> to_cache,
              ttl |-> CASE fail = "delete" -> redis_ttl[chat_id]
                        [] fail = "none" -> TRUE
                        [] OTHER -> FALSE]

HistoryFailures == {"none", "lrange", "delete", "rpush", "expire"}

NoHandler ==
    [variant |-> "none", chat_id |-> None, user_id |-> None, lifetime_check_task |-> None]

NoFrame ==
    [n |-> 0, text |-> "", error |-> "", in_try |-> FALSE, content |-> "",
     user_message |-> <<>>, exc |-> None, escaped |-> FALSE, before |-> <<>>]

IdleService == [pc |-> "idle"]

\* no broadcast_to_chat call under way
NoBroadcast == [pc |-> "idle"]

\* no connection yet: a fresh ConnectionManager, no handler
NoSession ==
    /\ active_connections = [c \in {} |-> {}]
    /\ websocket_users = [s \in {} |-> None]
    /\ handler = NoHandler
    /\ hpc = "none"
    /\ client_open = FALSE
    /\ inbox = <<>>
    /\ sent_count = 0
    /\ current = NoFrame
    /\ trace = <<>>
    /\ chat_history_cache = [c \in {} |-> <<>>]
    /\ svc = IdleService
    /\ demo_users = {}
    /\ now = 0
    /\ demo_chats = {}
    /\ teardown = <<>>
    /\ bc = NoBroadcast

\* The entries of the trace.
Recv(n, text) == [e |-> "recv", n |-> n, text |-> text]

SendFrame(frame) == [e |-> "send", frame |-> frame]

\* a message was inserted; append names the command of add_message that
\* failed, "none" when the append to the cache went through
Persist(m, fail) == [e |-> "persist", message |-> m, append |-> fail]

\* get_chat_history returned; set names the command of set_messages that
\* failed, "none" when the cache was repopulated, "skipped" when there was
\* nothing to repopulate
Load(set) == [e |-> "load", set |-> set]

Close(code) == [e |-> "close", code |-> code]

Accept == [e |-> "accept"]

\* What a send on a transport the client has closed raises: Starlette raises
\* WebSocketDisconnect or RuntimeError, depending on its version and on what
\* the server has seen of the close.
SendFailures == {"WebSocketDisconnect", "RuntimeError"}

\* ConnectionManager.connect, after websocket.accept()
connect(websocket, chat_id, user_id) ==
    /\ active_connections' =
           [c \in DOMAIN active_connections \cup {chat_id} |->
               IF c \in DOMAIN active_connections /\ c # chat_id
               THEN active_connections[c]
               ELSE (IF c \in DOMAIN active_connections THEN active_connections[c] ELSE {})
                        \cup {websocket}]
    /\ websocket_users' =
           [s \in DOMAIN websocket_users \cup {websocket} |->
               IF s = websocket THEN user_id ELSE websocket_users[s]]

\* a disconnect that leaves the chat's entry in place when its set is empty
disconnect_keeps_empty(websocket, chat_id) ==
    /\ active_connections' =
           [c \in DOMAIN active_connections |->
               IF c = chat_id THEN active_connections[c] \ {websocket}
               ELSE active_connections[c]]
    /\ websocket_users' =
           [s \in DOMAIN websocket_users \ {websocket} |-> websocket_users[s]]

\* ConnectionManager.disconnect
disconnect(websocket, chat_id) ==
    /\ active_connections' =
           LET keep == {c \in DOMAIN active_connections :
                           c # chat_id \/ active_connections[c] \ {websocket} # {}}
           IN  [c \in keep |->
                   IF c = chat_id THEN active_connections[c] \ {websocket}
                   ELSE active_connections[c]]
    /\ websocket_users' =
           [s \in DOMAIN websocket_users \ {websocket} |-> websocket_users[s]]

\* The endpoint builds a handler and awaits its handle_connection.
handle_connection(variant, chat_id, user_id) ==
    /\ hpc = "none"
    /\ svc = IdleService
    /\ handler' = [variant |-> variant, chat_id |-> chat_id, user_id |-> user_id,
                   lifetime_check_task |-> None]
    /\ hpc' = IF variant = "chat" THEN "verify" ELSE "setup"
    /\ client_open' = TRUE
    /\ UNCHANGED <<active_connections, websocket_users, inbox, sent_count, current, trace,
                   chat_history_cache, svc, demo_users>>
    /\ UNCHANGED <<lifeVars, registryVars, agentVars, cacheVars>>

\* ChatWebSocketHandler.verify_access: chat_service.get_chat
verify_access ==
    /\ hpc = "verify"
    /\ LET c == handler.chat_id
       IN  IF c \notin Chats THEN
               /\ hpc' = "deny"
               /\ current' = [current EXCEPT !.exc = "NotFoundException"]
           ELSE IF ChatOwner[c] # handler.user_id THEN
               /\ hpc' = "deny"
               /\ current' = [current EXCEPT !.exc = "ForbiddenException"]
           ELSE
               /\ hpc' = "connect"
               /\ UNCHANGED current
    /\ UNCHANGED <<active_connections, websocket_users, handler, client_open, inbox,
                   sent_count, trace, chat_history_cache, svc, demo_users>>
    /\ UNCHANGED <<lifeVars, registryVars, agentVars, cacheVars>>

\* except (NotFoundException, ForbiddenException): websocket.close(code=1008)
Deny ==
    /\ hpc = "deny"
    /\ trace' = Append(trace, Close(1008))
    /\ hpc' = "disconnect"
    /\ UNCHANGED <<active_connections, websocket_users, handler, client_open, inbox,
                   sent_count, current, chat_history_cache, svc, demo_users>>
    /\ UNCHANGED <<lifeVars, registryVars, agentVars, cacheVars>>

\* UserService.create_user_with_apple_id: the users table with the new user
create_user_with_apple_id(users, user) == users \cup {user}

\* ChatService.create_chat: the chats of the throwaway users with the new chat
create_chat(chats, chat) == chats \cup {chat}

\* The ways setup_session goes: the creation of the user raises, or the
\* creation of the chat does after the user was created, or nothing does.
SetupFailures == {"none", "user", "chat"}

\* DemoWebSocketHandler.setup_session: a throwaway user and its chat; what
\* the database raises leaves setup_session with self.user_id set if the
\* user was created
setup_session(fail) ==
    /\ hpc = "setup"
    /\ demo_users' = IF fail = "user" THEN demo_users
                     ELSE create_user_with_apple_id(demo_users, DemoUser)
    /\ demo_chats' = IF fail = "none" THEN create_chat(demo_chats, DemoChat) ELSE demo_chats
    /\ handler' = [handler EXCEPT
                       !.user_id = IF fail = "user" THEN @ ELSE DemoUser,
                       !.chat_id = IF fail = "none" THEN DemoChat ELSE @]
    /\ hpc' = IF fail = "none" THEN "connect" ELSE "boundary"
    /\ current' = IF fail = "none" THEN current
                  ELSE [current EXCEPT !.exc = "SQLAlchemyError"]
    /\ UNCHANGED <<active_connections, websocket_users, client_open, inbox, sent_count,
                   trace, chat_history_cache, svc>>
    /\ UNCHANGED <<now, teardown, registryVars, agentVars, cacheVars>>

\* connection_manager.connect: websocket.accept(), then the registration
Connect ==
    /\ hpc = "connect"
    /\ IF client_open THEN
           /\ connect(Socket, handler.chat_id, handler.user_id)
           /\ trace' = Append(trace, Accept)
           /\ hpc' = IF handler.variant = "chat" THEN "history" ELSE "load_history"
           /\ UNCHANGED current
       ELSE
           \* accept() on a transport that is gone
           /\ hpc' = "boundary"
           /\ current' = [current EXCEPT !.exc = "RuntimeError"]
           /\ UNCHANGED <<active_connections, websocket_users, trace>>
    /\ UNCHANGED <<handler, client_open, inbox, sent_count, chat_history_cache, svc,
                   demo_users>>
    /\ UNCHANGED <<lifeVars, registryVars, agentVars, cacheVars>>

\* ChatWebSocketHandler.send_history: get_chat_history and the history frame
send_history(fail) ==
    /\ hpc = "history"
    /\ LET r == GetChatHistory(handler.chat_id, fail)
       IN  /\ redis' = [redis EXCEPT ![handler.chat_id] = r.list]
           /\ redis_ttl' = [redis_ttl EXCEPT ![handler.chat_id] = r.ttl]
           /\ IF r.raised = None /\ client_open THEN
                  /\ trace' = trace \o <<Load(r.set), SendFrame(HistoryFrame(r.value))>>
                  /\ hpc' = "receive"
              ELSE
                  \* except Exception: send_error("Failed to load chat history")
                  /\ trace' = IF r.raised = None THEN Append(trace, Load(r.set)) ELSE trace
                  /\ hpc' = "history_error"
           /\ UNCHANGED current
    /\ UNCHANGED <<active_connections, websocket_users, handler, client_open, inbox,
                   sent_count, chat_history_cache, svc, demo_users>>
    /\ UNCHANGED <<lifeVars, registryVars, agentVars, db_messages, task>>

\* the send_error of send_history's except clause
HistoryError(exc) ==
    /\ hpc = "history_error"
    /\ IF client_open THEN
           /\ trace' = Append(trace, SendFrame(ErrorFrame("Failed to load chat history")))
           /\ hpc' = "receive"
           /\ UNCHANGED current
       ELSE
           /\ hpc' = "boundary"
           /\ current' = [current EXCEPT !.exc = exc]
           /\ UNCHANGED trace
    /\ UNCHANGED <<active_connections, websocket_users, handler, client_open, inbox,
                   sent_count, chat_history_cache, svc, demo_users>>
    /\ UNCHANGED <<lifeVars, registryVars, agentVars, cacheVars>>

\* ChatSessionService.load_initial_history: MessageService.get_chat_history
\* takes (chat_id, use_cache) and is called with limit=..., a TypeError
load_initial_history ==
    /\ hpc = "load_history"
    /\ hpc' = "boundary"
    /\ current' = [current EXCEPT !.exc = "TypeError"]
    /\ UNCHANGED <<active_connections, websocket_users, handler, client_open, inbox,
                   sent_count, trace, chat_history_cache, svc, demo_users>>
    /\ UNCHANGED <<lifeVars, registryVars, agentVars, cacheVars>>

\* a loop whose except clause keeps what the frame had set
CaughtUnconverted(exc) == [current EXCEPT !.exc = exc]

\* the handling of the current frame raised inside the try of message_loop:
\* except Exception sends "Failed to process message"
Caught(exc) ==
    [current EXCEPT !.exc = exc, !.error = "Failed to process message", !.in_try = FALSE]

\* a loop that takes the next frame while the last one is still being handled
CanReceiveWhileHandling ==
    hpc \in {"receive", "persist_user", "send_user", "persist_assistant", "send_assistant",
             "send_pong", "send_error"}

\* The handler may take the next frame: it is at receive_text in message_loop.
CanReceive == hpc = "receive"

\* The client sends a text frame.
ClientSends(text) ==
    /\ client_open
    /\ hpc \notin {"none", "verify", "setup", "deny", "connect", "closed"}
    /\ sent_count < MaxFrames
    /\ inbox' = Append(inbox, text)
    /\ sent_count' = sent_count + 1
    /\ UNCHANGED <<active_connections, websocket_users, handler, hpc, client_open, current,
                   trace, chat_history_cache, svc, demo_users>>
    /\ UNCHANGED <<lifeVars, registryVars, agentVars, cacheVars>>

\* The client closes the transport.
ClientCloses ==
    /\ client_open
    /\ hpc \notin {"none", "closed"}
    /\ client_open' = FALSE
    /\ UNCHANGED <<active_connections, websocket_users, handler, hpc, inbox, sent_count,
                   current, trace, chat_history_cache, svc, demo_users>>
    /\ UNCHANGED <<lifeVars, registryVars, agentVars, cacheVars>>

\* message_loop: receive_text returns the next frame, json.loads and
\* handle_message run up to their first await; with no frame left and the
\* transport closed receive_text raises WebSocketDisconnect, outside the try
Receive ==
    /\ CanReceive
    /\ IF inbox # <<>> THEN
           LET text == Head(inbox)
               d == Dispatch(text)
           IN  /\ inbox' = Tail(inbox)
               /\ current' = [NoFrame EXCEPT !.n = current.n + 1, !.text = text,
                                             !.error = d.error, !.in_try = d.in_try,
                                             !.content = d.content,
                                             !.before = redis[handler.chat_id]]
               /\ trace' = Append(trace, Recv(current.n + 1, text))
               /\ hpc' = d.to
       ELSE
           /\ ~client_open
           /\ hpc' = "boundary"
           /\ current' = [current EXCEPT !.exc = "WebSocketDisconnect"]
           /\ UNCHANGED <<inbox, trace>>
    /\ UNCHANGED <<active_connections, websocket_users, handler, client_open, sent_count,
                   chat_history_cache, svc, demo_users>>
    /\ UNCHANGED <<lifeVars, registryVars, agentVars, cacheVars>>

\* handle_ping: send_json({"type": "pong"})
handle_ping(exc) ==
    /\ hpc = "send_pong"
    /\ IF client_open THEN
           /\ trace' = Append(trace, SendFrame(PongFrame))
           /\ hpc' = "receive"
           /\ UNCHANGED current
       ELSE
           /\ hpc' = "send_error"
           /\ current' = Caught(exc)
           /\ UNCHANGED trace
    /\ UNCHANGED <<active_connections, websocket_users, handler, client_open, inbox,
                   sent_count, chat_history_cache, svc, demo_users>>
    /\ UNCHANGED <<lifeVars, registryVars, agentVars, cacheVars>>

\* send_error for the current frame: from handle_message or
\* handle_user_message (inside the try), or from an except clause of
\* message_loop, whose failure leaves the loop
send_error(exc) ==
    /\ hpc = "send_error"
    /\ IF client_open THEN
           /\ trace' = Append(trace, SendFrame(ErrorFrame(current.error)))
           /\ hpc' = "receive"
           /\ UNCHANGED current
       ELSE IF current.in_try THEN
           /\ hpc' = "send_error"
           /\ current' = Caught(exc)
           /\ UNCHANGED trace
       ELSE
           /\ hpc' = "boundary"
           /\ current' = [current EXCEPT !.exc = exc]
           /\ UNCHANGED trace
    /\ UNCHANGED <<active_connections, websocket_users, handler, client_open, inbox,
                   sent_count, chat_history_cache, svc, demo_users>>
    /\ UNCHANGED <<lifeVars, registryVars, agentVars, cacheVars>>

\* a handler that goes back to receive_text in silence when the insert fails
CreateMessageFailureDropped(role, content, fail, next) ==
    IF fail = "db" THEN
        /\ hpc' = "receive"
        /\ current' = [current EXCEPT !.exc = "SQLAlchemyError"]
        /\ UNCHANGED <<db_messages, redis, redis_ttl, trace>>
    ELSE
        LET m == Message(handler.chat_id, role, content)
        IN  /\ db_messages' = Append(db_messages, m)
            /\ redis' = [redis EXCEPT ![m.chat_id] = add_message(@, m, fail)]
            /\ redis_ttl' = [redis_ttl EXCEPT ![m.chat_id] = add_message_ttl(@, fail)]
            /\ trace' = Append(trace, Persist(m, fail))
            /\ current' = [current EXCEPT !.user_message =
                               IF role = "user" THEN <<m>> ELSE @]
            /\ hpc' = next

\* MessageService.create_message for the handler, as one step: the insert and
\* commit, then add_message with its failure logged and swallowed
CreateMessage(role, content, fail, next) ==
    IF fail = "db" THEN
        /\ hpc' = "send_error"
        /\ current' = Caught("SQLAlchemyError")
        /\ UNCHANGED <<db_messages, redis, redis_ttl, trace>>
    ELSE
        LET m == Message(handler.chat_id, role, content)
        IN  /\ db_messages' = Append(db_messages, m)
            /\ redis' = [redis EXCEPT ![m.chat_id] = add_message(@, m, fail)]
            /\ redis_ttl' = [redis_ttl EXCEPT ![m.chat_id] = add_message_ttl(@, fail)]
            /\ trace' = Append(trace, Persist(m, fail))
            /\ current' = [current EXCEPT !.user_message =
                               IF role = "user" THEN <<m>> ELSE @]
            /\ hpc' = next

\* ChatWebSocketHandler.handle_user_message: save the user message
PersistUser(fail) ==
    /\ hpc = "persist_user"
    /\ handler.variant = "chat"
    /\ CreateMessage("user", current.content, fail, "send_user")
    /\ UNCHANGED <<active_connections, websocket_users, handler, client_open, inbox,
                   sent_count, chat_history_cache, svc, demo_users>>
    /\ UNCHANGED <<lifeVars, registryVars, agentVars, task>>

\* send_message(user_message); generate_assistant_response then runs without
\* awaiting anything
SendUser(exc) ==
    /\ hpc = "send_user"
    /\ IF client_open THEN
           /\ trace' = Append(trace, SendFrame(MessageFrame(current.user_message[1])))
           /\ hpc' = "persist_assistant"
           /\ UNCHANGED current
       ELSE
           /\ hpc' = "send_error"
           /\ current' = Caught(exc)
           /\ UNCHANGED trace
    /\ UNCHANGED <<active_connections, websocket_users, handler, client_open, inbox,
                   sent_count, chat_history_cache, svc, demo_users>>
    /\ UNCHANGED <<lifeVars, registryVars, agentVars, cacheVars>>

\* generate_assistant_response
generate_assistant_response(user_content) == "Echo: " \o user_content

\* save the assistant message
PersistAssistant(fail) ==
    /\ hpc = "persist_assistant"
    /\ CreateMessage("assistant", generate_assistant_response(current.content), fail,
                     "send_assistant")
    /\ UNCHANGED <<active_connections, websocket_users, handler, client_open, inbox,
                   sent_count, chat_history_cache, svc, demo_users>>
    /\ UNCHANGED <<lifeVars, registryVars, agentVars, task>>

\* send_message(assistant_message): the frame is handled
SendAssistant(exc) ==
    /\ hpc = "send_assistant"
    /\ IF client_open THEN
           /\ trace' = Append(trace,
                  SendFrame(MessageFrame(db_messages[Len(db_messages)])))
           /\ hpc' = "receive"
           /\ UNCHANGED current
       ELSE
           /\ hpc' = "send_error"
           /\ current' = Caught(exc)
           /\ UNCHANGED trace
    /\ UNCHANGED <<active_connections, websocket_users, handler, client_open, inbox,
                   sent_count, chat_history_cache, svc, demo_users>>
    /\ UNCHANGED <<lifeVars, registryVars, agentVars, cacheVars>>

\* websocket.send_json goes through: the websocket has been accepted and the
\* client has not closed the transport (else it raises)
CanSend == client_open /\ \E i \in 1..Len(trace) : trace[i] = Accept

\* The except clauses of handle_connection. ChatWebSocketHandler only logs a
\* WebSocketDisconnect; DemoWebSocketHandler has no clause for it. Everything
\* else gets send_error("Internal server error"), whose own failure leaves
\* handle_connection once the finally block has run.
Boundary ==
    /\ hpc = "boundary"
    /\ IF handler.variant = "chat" /\ current.exc = "WebSocketDisconnect" THEN
           UNCHANGED <<trace, current>>
       ELSE IF CanSend THEN
           /\ trace' = Append(trace, SendFrame(ErrorFrame("Internal server error")))
           /\ UNCHANGED current
       ELSE
           /\ current' = [current EXCEPT !.escaped = TRUE]
           /\ UNCHANGED trace
    /\ hpc' = IF handler.variant = "chat" THEN "disconnect" ELSE "cleanup"
    /\ UNCHANGED <<active_connections, websocket_users, handler, client_open, inbox,
                   sent_count, chat_history_cache, svc, demo_users>>
    /\ UNCHANGED <<lifeVars, registryVars, agentVars, cacheVars>>

\* a delete_user that reports success and leaves the user in place
delete_user_not_committed(users, user_id) ==
    [raised |-> IF user_id \in users THEN None ELSE "UserNotFoundError", users |-> users]

\* UserService.delete_user: UserNotFoundError for a user that is not there,
\* else the user is deleted and the delete committed
delete_user(users, user_id) ==
    IF user_id \in users
    THEN [raised |-> None, users |-> users \ {user_id}]
    ELSE [raised |-> "UserNotFoundError", users |-> users]

\* the chats a deleted user takes along (User.chats, cascade "all,
\* delete-orphan"): the throwaway user owns every chat of demo_chats
CascadeChats(users_before, users_after) ==
    IF users_after = users_before THEN {} ELSE demo_chats

\* cleanup_session: if self.user_id
OwnerToDelete(h) == h.user_id

\* a cleanup that lets through what delete_user raises
NotSwallowed(exc) == [swallowed |-> None, raised |-> exc]

\* cleanup_session's except Exception around delete_user: what it raises is
\* logged and does not leave cleanup_session
Swallowed(exc) == [swallowed |-> exc, raised |-> None]

\* create_chat raised inside the transaction of the handler's one database
\* session (the flush of ChatRepository.create, or the commit) and nothing
\* rolled the session back: SQLAlchemy lets no statement through on it until
\* rollback() is called, which neither create_chat nor the handler does
NeedsRollback(h) == h.variant = "demo" /\ h.user_id # None /\ h.chat_id = None

\* DemoWebSocketHandler.cleanup_session, whoever calls it: the lifetime task is
\* cancelled and awaited if there is one; delete_user removes the user and,
\* by cascade, its chats and their messages; what delete_user raises is
\* logged and swallowed; on a session that needs a rollback the select of
\* delete_user raises PendingRollbackError and the user stays
CleanupSession ==
    LET d == IF OwnerToDelete(handler) = None
             THEN [raised |-> None, users |-> demo_users]
             ELSE IF NeedsRollback(handler)
             THEN [raised |-> "PendingRollbackError", users |-> demo_users]
             ELSE delete_user(demo_users, OwnerToDelete(handler))
        gone == CascadeChats(demo_users, d.users)
        rows == SelectSeq(db_messages, LAMBDA m : m.chat_id \in gone)
    IN  /\ demo_users' = d.users
        /\ demo_chats' = demo_chats \ gone
        /\ db_messages' = SelectSeq(db_messages, LAMBDA m : m.chat_id \notin gone)
        /\ teardown' = Append(teardown,
               [at |-> Len(trace),
                cancelled |-> handler.lifetime_check_task # None,
                swallowed |-> Swallowed(d.raised).swallowed,
                raised |-> Swallowed(d.raised).raised,
                users |-> demo_users \ d.users,
                chats |-> gone,
                messages |-> {rows[i].id : i \in 1..Len(rows)}])
        /\ UNCHANGED <<now, redis, redis_ttl, task>>

\* the cleanup_session of handle_connection's finally block
cleanup_session ==
    /\ hpc = "cleanup"
    /\ CleanupSession
    /\ hpc' = "disconnect"
    /\ UNCHANGED <<active_connections, websocket_users, handler, client_open, inbox,
                   sent_count, current, trace, chat_history_cache, svc>>
    /\ UNCHANGED <<registryVars, agentVars>>

\* cleanup_session called once more on a handler whose handle_connection
\* has returned
cleanup_session_again ==
    /\ hpc = "closed"
    /\ handler.variant = "demo"
    /\ Len(teardown) = 1
    /\ CleanupSession
    /\ UNCHANGED <<active_connections, websocket_users, handler, hpc, client_open, inbox,
                   sent_count, current, trace, chat_history_cache, svc>>
    /\ UNCHANGED <<registryVars, agentVars>>

\* finally: connection_manager.disconnect; an exception that left
\* handle_connection makes the endpoint close the websocket with code 1011
Disconnect ==
    /\ hpc = "disconnect"
    /\ IF handler.chat_id = None
       THEN UNCHANGED <<active_connections, websocket_users>>
       ELSE disconnect(Socket, handler.chat_id)
    /\ trace' = IF current.escaped THEN Append(trace, Close(1011)) ELSE trace
    /\ hpc' = "closed"
    /\ UNCHANGED <<handler, client_open, inbox, sent_count, current, chat_history_cache,
                   svc, demo_users>>
    /\ UNCHANGED <<lifeVars, registryVars, agentVars, cacheVars>>

\* ChatSessionService.process_user_message called on a fresh service:
\* step 1, message_service.create_message for the user message
process_user_message(chat_id, content, fail) ==
    /\ hpc = "none"
    /\ svc = IdleService
    /\ IF chat_id \notin Chats \/ fail = "db" THEN
           /\ svc' = [pc |-> "done", chat_id |-> chat_id,
                      raised |-> IF chat_id \notin Chats THEN "NotFoundException"
                                 ELSE "SQLAlchemyError"]
           /\ UNCHANGED <<db_messages, redis, redis_ttl, trace>>
       ELSE
           LET m == Message(chat_id, "user", content)
           IN  /\ db_messages' = Append(db_messages, m)
               /\ redis' = [redis EXCEPT ![chat_id] = add_message(@, m, fail)]
               /\ redis_ttl' = [redis_ttl EXCEPT ![chat_id] = add_message_ttl(@, fail)]
               /\ trace' = Append(trace, Persist(m, fail))
               /\ svc' = [pc |-> "history", chat_id |-> chat_id, raised |-> None]
    /\ UNCHANGED <<active_connections, websocket_users, handler, hpc, client_open, inbox,
                   sent_count, current, chat_history_cache, demo_users>>
    /\ UNCHANGED <<lifeVars, registryVars, agentVars, task>>

\* step 2, _get_or_load_history: a chat that is not in chat_history_cache is
\* loaded with get_chat_history(chat_id, limit=...), a TypeError that leaves
\* process_user_message. Nothing ever puts a chat in chat_history_cache:
\* its two writers both go through that call.
_get_or_load_history ==
    /\ svc.pc = "history"
    /\ svc' = IF svc.chat_id \in DOMAIN chat_history_cache
              THEN [svc EXCEPT !.pc = "generate"]
              ELSE [svc EXCEPT !.pc = "done", !.raised = "TypeError"]
    /\ UNCHANGED <<active_connections, websocket_users, handler, hpc, client_open, inbox,
                   sent_count, current, trace, chat_history_cache, demo_users>>
    /\ UNCHANGED <<lifeVars, registryVars, agentVars, cacheVars>>

SessionNext ==
    \/ \E c \in ChatIds : handle_connection("chat", c, "u1")
    \/ handle_connection("demo", None, None)
    \/ verify_access
    \/ Deny
    \/ \E fail \in SetupFailures : setup_session(fail)
    \/ Connect
    \/ \E fail \in HistoryFailures : send_history(fail)
    \/ \E exc \in SendFailures : HistoryError(exc)
    \/ load_initial_history
    \/ \E text \in FrameTexts : ClientSends(text)
    \/ ClientCloses
    \/ Receive
    \/ \E exc \in SendFailures : handle_ping(exc)
    \/ \E exc \in SendFailures : send_error(exc)
    \/ \E fail \in CreateFailures : PersistUser(fail)
    \/ \E exc \in SendFailures : SendUser(exc)
    \/ \E fail \in CreateFailures : PersistAssistant(fail)
    \/ \E exc \in SendFailures : SendAssistant(exc)
    \/ Boundary
    \/ cleanup_session
    \/ cleanup_session_again
    \/ Disconnect
    \/ \E c \in ChatIds, fail \in CreateFailures : process_user_message(c, "Hello", fail)
    \/ _get_or_load_history

\* The conversation c1 as earlier sessions left it: k messages, user and
\* assistant in turn.
StoredHistory(k) ==
    [i \in 1..k |->
        [id |-> MessageIds[i], chat_id |-> "c1",
         role |-> IF i % 2 = 1 THEN "user" ELSE "assistant",
         content |-> IF i % 2 = 1 THEN "Hello" ELSE "Echo: Hello",
         created_at |-> i]]

\* A session starts on a store that holds no message of c1, or max_messages
\* of them, or one more; the cache entry is absent or holds the last
\* max_messages of them.
SessionInit ==
    /\ AgentInit(<<>>)
    /\ NoSession
    /\ \E k \in {0, max_messages, max_messages + 1}, cached \in BOOLEAN :
          /\ db_messages = StoredHistory(k)
          /\ redis = [c \in Chats |->
                         IF c = "c1" /\ cached
                         THEN Map(LastN(StoredHistory(k), max_messages), _message_to_dict)
                         ELSE <<>>]
          /\ redis_ttl = [c \in Chats |-> redis[c] # <<>>]
    /\ task = [w \in Workers |-> Idle]

SpecSession == SessionInit /\ [][SessionNext]_vars

\* ------------------------------------------------------------------------
\* The session with the clock
\* ------------------------------------------------------------------------

\* Time is counted in periods of the lifetime check (check_lifetime sleeps
\* 10 seconds between two looks at the clock).

\* settings.demo_ws_lifetime, in periods
demo_ws_lifetime == 1

\* settings.websocket_idle_timeout, in periods
websocket_idle_timeout == 2

\* the clock is followed for so many periods
MaxTime == 4

\* the handler waits for the outside: for the database in setup_session, or
\* in receive_text for a frame of a client that is there and has sent nothing
Waiting ==
    \/ hpc = "setup"
    \/ hpc = "receive" /\ client_open /\ inbox = <<>>

\* A period goes by while the handler waits; the steps of the handler
\* themselves take no time.
Tick ==
    /\ Waiting
    /\ now < MaxTime
    /\ now' = now + 1
    /\ UNCHANGED <<demo_chats, teardown, registryVars, agentVars, cacheVars, sessionVars>>

TimedNext ==
    \/ SessionNext
    \/ Tick

SpecTimed == SessionInit /\ [][TimedNext]_vars

\* an empty store and an empty Redis
CacheEmpty ==
    /\ db_messages = <<>>
    /\ redis = [c \in Chats |-> <<>>]
    /\ redis_ttl = [c \in Chats |-> FALSE]
    /\ task = [w \in Workers |-> Idle]

CacheInit == AgentInit(<<>>) /\ CacheEmpty /\ NoSession

SpecCache == CacheInit /\ [][CacheNext]_vars

\* ------------------------------------------------------------------------
\* Two MessageService calls at a time on one chat
\* ------------------------------------------------------------------------

\* A step of a task's one call on chat c1; its Redis commands all go through.
SharedStep(w) ==
    \/ \E r \in Roles : create_message(w, "c1", r, "Hello")
    \/ AddRpush(w, TRUE)
    \/ AddLtrim(w, TRUE)
    \/ AddExpire(w, TRUE)
    \/ get_chat_history(w, "c1", TRUE)
    \/ GetLrange(w, TRUE)
    \/ GetSelect(w)
    \/ SetDelete(w, TRUE)
    \/ SetRpush(w, TRUE)
    \/ SetExpire(w, TRUE)

\* The calls of two sessions' tasks interleave at their awaits.
SharedNext == \E w \in Workers : SharedStep(w)

\* The chat has no message, or two, or max_messages of them, and its cache
\* entry is absent (never written, or expired).
SharedInit ==
    /\ AgentInit(<<>>)
    /\ NoSession
    /\ \E k \in {0, 2, max_messages} : db_messages = StoredHistory(k)
    /\ redis = [c \in Chats |-> <<>>]
    /\ redis_ttl = [c \in Chats |-> FALSE]
    /\ task = [w \in Workers |-> Idle]

SpecShared == SharedInit /\ [][SharedNext]_vars

\* ------------------------------------------------------------------------
\* The connection manager under several tasks
\* ------------------------------------------------------------------------

\* The websockets of the sessions that share the one ConnectionManager of
\* chat_ws.py.
Sockets == {"ws1", "ws2", "ws3"}

\* the user each of them was opened by
SocketUser == [w \in Sockets |-> IF w = "ws2" THEN "u2" ELSE "u1"]

\* what a connect or disconnect of another task leaves of the broadcast under
\* way: it runs while broadcast_to_chat is suspended in send_json (there is
\* no suspension between the end of the loops and the return)
Interleaved(chat_id, websocket) ==
    IF bc.pc # "send" THEN bc
    ELSE [bc EXCEPT !.changed = TRUE,
                    !.before = None,
                    !.changed_chat = @ \/ chat_id = bc.chat_id,
                    !.stayed = @ \ {websocket},
                    !.detached = @ \/ (chat_id = bc.chat_id /\
                                          chat_id \notin DOMAIN active_connections')]

\* the finally block of a session's handler: connection_manager.disconnect
Unregister(websocket, chat_id) ==
    /\ hpc = "none"
    /\ bc.pc # "done"
    /\ chat_id \in DOMAIN active_connections
    /\ websocket \in active_connections[chat_id]
    /\ disconnect(websocket, chat_id)
    /\ bc' = Interleaved(chat_id, websocket)
    /\ UNCHANGED <<handler, hpc, client_open, inbox, sent_count, current, trace,
                   chat_history_cache, svc, demo_users>>
    /\ UNCHANGED <<lifeVars, agentVars, cacheVars>>

\* the websocket is a new one: it was not accepted before (accept() raises
\* RuntimeError for a websocket that was) and nothing holds a reference to it
Fresh(websocket) ==
    /\ websocket \notin DOMAIN websocket_users
    /\ \A c \in DOMAIN active_connections : websocket \notin active_connections[c]
    /\ IF bc.pc = "idle" THEN TRUE
       ELSE websocket \notin bc.initial \cup bc.visited \cup bc.disconnected

\* a session's handler: connection_manager.connect, from websocket.accept() on
Register(websocket, chat_id) ==
    /\ hpc = "none"
    /\ bc.pc # "done"
    /\ Fresh(websocket)
    /\ connect(websocket, chat_id, SocketUser[websocket])
    /\ bc' = Interleaved(chat_id, websocket)
    /\ UNCHANGED <<handler, hpc, client_open, inbox, sent_count, current, trace,
                   chat_history_cache, svc, demo_users>>
    /\ UNCHANGED <<lifeVars, agentVars, cacheVars>>

\* the registry after disconnect(websocket, chat_id)
Disconnected(reg, websocket, chat_id) ==
    [ac |-> LET keep == {c \in DOMAIN reg.ac : c # chat_id \/ reg.ac[c] \ {websocket} # {}}
            IN  [c \in keep |->
                    IF c = chat_id THEN reg.ac[c] \ {websocket} ELSE reg.ac[c]],
     users |-> [s \in DOMAIN reg.users \ {websocket} |-> reg.users[s]]]

\* broadcast_to_chat's second loop: disconnect for every connection of the set
RECURSIVE DisconnectAll(_, _, _)
DisconnectAll(reg, set, chat_id) ==
    IF set = {} THEN reg
    ELSE LET websocket == CHOOSE w \in set : TRUE
         IN  DisconnectAll(Disconnected(reg, websocket, chat_id), set \ {websocket}, chat_id)

\* a broadcast that forgets the connections whose send failed
Dropped(disconnected, connection, ok) == disconnected

\* the except clause of the first loop: disconnected.add(connection)
Collected(disconnected, connection, ok) ==
    IF ok THEN disconnected ELSE disconnected \cup {connection}

\* the for statement asks the set iterator for the next connection: a set
\* whose size is not the one it had when the loop began makes the iterator
\* raise RuntimeError, which leaves broadcast_to_chat; else the iterator
\* hands out a connection it has not handed out yet, and when there is none
\* (or none but connections added since), the loop ends and the second
\* loop disconnects the connections collected
NextConnection(b) ==
    LET \* the set object the loop goes over: the chat's entry as it was when
        \* the loop began, empty and out of the registry once a disconnect
        \* has deleted the entry
        S == IF b.detached \/ b.chat_id \notin DOMAIN active_connections
             THEN {}
             ELSE active_connections[b.chat_id]
        candidates == S \ b.visited
        reg == DisconnectAll([ac |-> active_connections, users |-> websocket_users],
                             b.disconnected, b.chat_id)
    IN  IF Cardinality(S) # b.used THEN
            /\ bc' = [b EXCEPT !.pc = "done", !.raised = "RuntimeError"]
            /\ UNCHANGED <<active_connections, websocket_users>>
        ELSE
            \/ /\ \E connection \in candidates :
                      bc' = [b EXCEPT !.pc = "send", !.connection = connection,
                                      !.visited = @ \cup {connection}]
               /\ UNCHANGED <<active_connections, websocket_users>>
            \/ /\ candidates \cap b.stayed = {}
               /\ active_connections' = reg.ac
               /\ websocket_users' = reg.users
               /\ bc' = [b EXCEPT !.pc = "done"]

\* ConnectionManager.broadcast_to_chat is called: a chat without an entry
\* makes it return at once, else the first loop begins
broadcast_to_chat(chat_id) ==
    /\ hpc = "none"
    /\ bc.pc = "idle"
    /\ IF chat_id \notin DOMAIN active_connections THEN
           /\ bc' = [pc |-> "done", chat_id |-> chat_id, registered |-> FALSE,
                     raised |-> None]
           /\ UNCHANGED <<active_connections, websocket_users>>
       ELSE
           NextConnection(
               [pc |-> "next", chat_id |-> chat_id, registered |-> TRUE,
                used |-> Cardinality(active_connections[chat_id]),
                initial |-> active_connections[chat_id],
                before |-> [ac |-> active_connections, users |-> websocket_users],
                stayed |-> active_connections[chat_id],
                visited |-> {}, connection |-> None,
                delivered |-> {}, disconnected |-> {},
                detached |-> FALSE, changed |-> FALSE, changed_chat |-> FALSE,
                raised |-> None])
    /\ UNCHANGED <<handler, hpc, client_open, inbox, sent_count, current, trace,
                   chat_history_cache, svc, demo_users>>
    /\ UNCHANGED <<lifeVars, agentVars, cacheVars>>

\* await connection.send_json(message) is over: the payload went out (ok) or
\* the send raised; then the for statement goes on
Deliver(ok) ==
    /\ bc.pc = "send"
    /\ NextConnection(
           [bc EXCEPT !.delivered = IF ok THEN @ \cup {bc.connection} ELSE @,
                      !.disconnected = Collected(@, bc.connection, ok)])
    /\ UNCHANGED <<handler, hpc, client_open, inbox, sent_count, current, trace,
                   chat_history_cache, svc, demo_users>>
    /\ UNCHANGED <<lifeVars, agentVars, cacheVars>>

\* broadcast_to_chat returns, or lets the RuntimeError through, and the
\* caller goes on
BroadcastReturns ==
    /\ bc.pc = "done"
    /\ bc' = NoBroadcast
    /\ UNCHANGED <<lifeVars, agentVars, cacheVars, sessionVars>>

RegistryNext ==
    \/ \E websocket \in Sockets, chat_id \in Chats : Register(websocket, chat_id)
    \/ \E websocket \in Sockets, chat_id \in Chats : Unregister(websocket, chat_id)
    \/ \E chat_id \in Chats : broadcast_to_chat(chat_id)
    \/ \E ok \in BOOLEAN : Deliver(ok)
    \/ BroadcastReturns

RegistryInit == AgentInit(<<>>) /\ CacheEmpty /\ NoSession

SpecRegistry == RegistryInit /\ [][RegistryNext]_vars

\* connection_manager.disconnect called with a chat the websocket is not in:
\* the chat's set is left as it is, and the owner of the websocket is popped
\* all the same
DisconnectOther(websocket, chat_id) ==
    /\ hpc = "none"
    /\ bc.pc # "done"
    /\ websocket \in DOMAIN websocket_users
    /\ ~(chat_id \in DOMAIN active_connections /\ websocket \in active_connections[chat_id])
    /\ disconnect(websocket, chat_id)
    /\ bc' = IF bc.pc # "send" THEN bc
             ELSE [bc EXCEPT !.changed = TRUE, !.before = None]
    /\ UNCHANGED <<handler, hpc, client_open, inbox, sent_count, current, trace,
                   chat_history_cache, svc, demo_users>>
    /\ UNCHANGED <<lifeVars, agentVars, cacheVars>>

\* The ConnectionManager called with any arguments.
ManagerNext ==
    \/ RegistryNext
    \/ \E websocket \in Sockets, chat_id \in ChatIds : DisconnectOther(websocket, chat_id)

SpecManager == RegistryInit /\ [][ManagerNext]_vars

\* ------------------------------------------------------------------------
\* The orchestrator and its registry on their own
\* ------------------------------------------------------------------------

Init ==
    /\ \E prior \in {<<>>, <<"custom_tool">>} : AgentInit(prior)
    /\ CacheEmpty
    /\ NoSession

Spec == Init /\ [][Next]_vars


\* ------------------------------------------------------------------------
\* Properties of the tool registry and the orchestrator
\* ------------------------------------------------------------------------

\* process has returned (or let an exception through)
ProcessDone == pc = "done" /\ caller = "process"

\* the tool list has been gone through, whoever asked
ToolsFinished ==
    \/ ToolsReturned
    \/ pc = "dispatch2"
    \/ pc = "done" /\ (caller = "direct" \/ first_reply.tool_calls # <<>>)

\* the executions of tools among the events
ToolEvents == SelectSeq(events, LAMBDA e : e[1] # "llm")

IsError(r) == "error" \in DOMAIN r.result

AnyToolFailed == \E i \in 1..Len(tool_results) : IsError(tool_results[i])

Unknown(tc) == get_tool(tc.function.name) = None

Undecodable(tc) == ~json_loads(tc.function.arguments).ok

\* C1: once execute_tool_calls has gone through a list of K calls, it has
\* exactly K results, and the i-th result carries the id of the i-th call.
C1_ResultsComplete ==
    ToolsFinished =>
        /\ Len(tool_results) = Len(tool_calls)
        /\ \A i \in 1..Len(tool_calls) : tool_results[i].tool_call_id = tool_calls[i].id

\* two calls with different ids: one names an unknown tool, the other's tool raised
C1_Witness ==
    /\ ToolsFinished
    /\ Len(tool_calls) = 2
    /\ tool_calls[1].id # tool_calls[2].id
    /\ \E i, j \in 1..2 :
          /\ "available_tools" \in DOMAIN tool_results[i].result
          /\ <<"raise", j>> \in Range(events)

\* C2 as stated: process lets no exception through, and after any failure of
\* the gateway or of a tool its response has a non-empty content.
C2_Original ==
    (ProcessDone /\ (failure.at # "none" \/ AnyToolFailed)) =>
        /\ escaped = None
        /\ response.content \notin {None, ""}

\* C2 as amended: process lets no exception through and always returns a
\* response with a text; after a failure of the gateway the text is not empty
\* (after a failure of a tool only, it is the second reply's text, empty or not).
C2_NeverPropagates ==
    ProcessDone =>
        /\ escaped = None
        /\ response.content # None
        /\ (failure.at # "none" => response.content # "")

\* a tool failed and then the second gateway call failed as well
C2_Witness ==
    /\ ProcessDone
    /\ AnyToolFailed
    /\ failure.at = "dispatch2"
    /\ failure.cls = "TypeError"

\* The four categories of gateway failure.
Category(cls) ==
    CASE cls = "LLMAuthenticationError" -> "authentication"
      [] cls = "LLMRateLimitError"      -> "rate_limit"
      [] cls = "LLMContextLengthError"  -> "context_length"
      [] cls = "LLMError"               -> "provider"
      [] OTHER                          -> None

\* the failures chat_completion raises
GatewayFailures == {chat_completion(out) : out \in ProviderFailures}

\* messages an exception of the gateway may carry
FailureMessages ==
    {exc.msg : exc \in GatewayFailures} \cup {"Invalid API key", "Context too long", ""}

FirstCallFailed ==
    ProcessDone /\ failure.at = "dispatch1" /\ Category(failure.cls) # None

\* C3 as stated: after a failure of the first call the text is the one text of
\* the failure's category: every failure of the category gives it, no failure
\* of another category does.
C3_Original ==
    FirstCallFailed =>
        \A exc \in GatewayFailures :
            Category(exc.cls) # None =>
                ((Category(exc.cls) = Category(failure.cls))
                    <=> (ExceptChain(exc).response.content = response.content))

\* C3 as amended: an authentication failure and a rate-limit failure each give
\* one text whatever the exception's message, and no failure of another
\* category gives that text; a context-too-long failure and any other provider
\* error give "Sorry, I encountered an error: " followed by the exception's
\* message.
C3_CategoryTexts ==
    FirstCallFailed =>
        IF failure.cls \in {"LLMAuthenticationError", "LLMRateLimitError"} THEN
            /\ \A m \in FailureMessages :
                  ExceptChain(Raise(failure.cls, m)).response.content = response.content
            /\ \A exc \in GatewayFailures, m \in FailureMessages :
                  Category(exc.cls) \notin {None, Category(failure.cls)} =>
                      ExceptChain(Raise(exc.cls, m)).response.content # response.content
        ELSE
            response.content = "Sorry, I encountered an error: " \o failure.msg

\* the first call failed with a rate-limit failure
C3_Witness == FirstCallFailed /\ failure.cls = "LLMRateLimitError"

\* C4: when the first reply carries tool calls, process makes two gateway
\* calls with every tool execution between them; the second call offers no
\* tools and its messages are those of the first call followed by one
\* assistant message with all the requests and all the results.
C4_TwoPhase ==
    (caller = "process" /\ first_reply.tool_calls # <<>>) =>
        IF pc = "tools" THEN
            /\ Len(llm_calls) = 1
            /\ events[1] = <<"llm", 1>>
            /\ \A j \in 2..Len(events) : events[j][1] # "llm"
        ELSE
            LET n == Len(llm_calls[1].messages)
                last == llm_calls[2].messages[n + 1]
            IN  /\ Len(llm_calls) = 2
                /\ events[1] = <<"llm", 1>>
                /\ events[Len(events)] = <<"llm", 2>>
                /\ \A j \in 2..(Len(events) - 1) : events[j][1] # "llm"
                /\ llm_calls[2].tools = <<>>
                /\ Len(llm_calls[2].messages) = n + 1
                /\ SubSeq(llm_calls[2].messages, 1, n) = llm_calls[1].messages
                /\ last.role = "assistant"
                /\ last.tool_call_data =
                       <<[tool_calls |-> first_reply.tool_calls,
                          tool_results |-> tool_results]>>
                /\ Len(tool_results) = Len(first_reply.tool_calls)

\* two tool calls were executed and the second gateway call has answered
C4_Witness ==
    /\ ProcessDone
    /\ failure.at = "none"
    /\ Len(first_reply.tool_calls) = 2
    /\ Len(ToolEvents) = 4
    /\ Len(llm_calls[1].messages) = 3

\* C5: when the first reply carries no tool call, process makes one gateway
\* call, executes no tool and returns the reply's text without tool metadata.
C5_NoTools ==
    (ProcessDone /\ failure.at = "none" /\ first_reply.tool_calls = <<>>) =>
        /\ Len(llm_calls) = 1
        /\ events = << <<"llm", 1>> >>
        /\ tool_results = <<>>
        /\ response.content = (IF first_reply.content = None THEN "" ELSE first_reply.content)
        /\ response.tool_metadata = <<>>

\* a reply with a text and no tool call has been returned
C5_Witness ==
    /\ ProcessDone
    /\ failure.at = "none"
    /\ first_reply.tool_calls = <<>>
    /\ response.content = "Created your goal."

\* C6: whenever tools were used, the response carries tool metadata with every
\* request and its result, in request order and correlated by id.
C6_MetadataComplete ==
    (ProcessDone /\ first_reply.tool_calls # <<>>) =>
        /\ response.tool_metadata # <<>>
        /\ LET md == response.tool_metadata[1]
           IN  /\ md.tool_calls = first_reply.tool_calls
               /\ Len(md.tool_results) = Len(md.tool_calls)
               /\ \A i \in 1..Len(md.tool_calls) :
                     md.tool_results[i].tool_call_id = md.tool_calls[i].id

\* C7: execute_tool_call raises nothing; a call that names an unknown tool,
\* whose arguments do not decode or whose tool raised has a result with an
\* error field; the tool is not run for an unknown name or undecodable arguments.
C7_NeverRaises ==
    /\ failure.at # "tools"
    /\ (caller = "direct" => escaped = None)
    /\ \A i \in 1..Len(tool_results) :
          (Unknown(tool_calls[i]) \/ Undecodable(tool_calls[i])
             \/ <<"raise", i>> \in Range(events)) => IsError(tool_results[i])
    /\ \A i \in 1..Len(tool_calls) :
          (Unknown(tool_calls[i]) \/ Undecodable(tool_calls[i])) =>
              <<"start", i>> \notin Range(events)

\* one call's arguments did not decode and another call's tool raised
C7_Witness ==
    /\ Len(tool_results) = 2
    /\ \E i, j \in 1..2 :
          /\ ~Unknown(tool_calls[i])
          /\ Undecodable(tool_calls[i])
          /\ IsError(tool_results[i])
          /\ <<"raise", j>> \in Range(events)
          /\ IsError(tool_results[j])

\* C8: the result for a name that is not registered is an error naming the
\* tool, and its available tools are the names registered at that moment.
C8_UnknownTool ==
    [][ (/\ pc = "tools"
         /\ ~running
         /\ Len(tool_results) < Len(tool_calls)
         /\ Len(tool_results') = Len(tool_results) + 1
         /\ Unknown(tool_calls[Len(tool_results')]))
        => LET tc == tool_calls[Len(tool_results')]
               r == tool_results'[Len(tool_results')]
           IN  /\ r.tool_call_id = tc.id
               /\ r.name = tc.function.name
               /\ r.result.error = "Tool '" \o tc.function.name \o "' not found"
               /\ Range(r.result.available_tools) = Range(_tools)
               /\ Len(r.result.available_tools) = Cardinality(Range(_tools)) ]_vars

\* an unknown tool was asked for while an extra tool was registered
C8_Witness ==
    \E i \in 1..Len(tool_results) :
        /\ "available_tools" \in DOMAIN tool_results[i].result
        /\ "custom_tool" \in Range(tool_results[i].result.available_tools)
        /\ tool_results[i].name = "get_weather"

\* C9: the tools of one reply run one after the other in request order: a
\* tool starts only when every earlier call has its result, its end is the
\* next thing that happens, and the results are in request order.
C9_Sequential ==
    LET T == ToolEvents
    IN  /\ \A j \in 1..Len(T) :
              IF T[j][1] = "start" THEN
                  /\ T[j][2] <= Len(tool_results) + 1
                  /\ IF j = Len(T) THEN running /\ T[j][2] = Len(tool_results) + 1
                     ELSE T[j + 1][1] \in {"return", "raise"} /\ T[j + 1][2] = T[j][2]
              ELSE
                  /\ j > 1
                  /\ T[j - 1] = <<"start", T[j][2]>>
        /\ \A j, k \in 1..Len(T) : j < k => T[j][2] <= T[k][2]
        /\ \A i \in 1..Len(tool_results) :
              /\ tool_results[i].tool_call_id = tool_calls[i].id
              /\ tool_results[i].name = tool_calls[i].function.name

\* two tools have run, the first before the second
C9_Witness ==
    /\ Len(tool_calls) = 2
    /\ tool_calls[1].id # tool_calls[2].id
    /\ ToolEvents = << <<"start", 1>>, <<"return", 1>>, <<"start", 2>>, <<"raise", 2>> >>

\* ------------------------------------------------------------------------
\* Properties of the history cache
\* ------------------------------------------------------------------------

\* a is the end of b
IsSuffix(a, b) ==
    /\ Len(a) <= Len(b)
    /\ a = SubSeq(b, Len(b) - Len(a) + 1, Len(b))

\* no MessageService call is under way
Quiescent == \A w \in Workers : task[w] = Idle \/ task[w].step = "done"

\* what the cache would hold of a chat if it held the whole store
StoreView(c) == Map(get_chat_messages(c), _message_to_dict)

\* C10: between the calls of MessageService, the cache entry of every chat is
\* absent or the last messages of the store, at most max_messages of them, in
\* the store's order, cache writes that failed included.
C10_CacheIsSuffix ==
    Quiescent =>
        \A c \in Chats :
            \/ redis[c] = <<>>
            \/ /\ Len(redis[c]) <= max_messages
               /\ IsSuffix(redis[c], StoreView(c))

\* a call has ended
Ended(w) == task[w] # Idle /\ task[w].step = "done"

\* the last max_messages messages of a chat in the store, oldest first, as
\* get_chat_history returns them
RecentSchemas(c) == Map(LastN(get_chat_messages(c), max_messages), MessageSchema)

\* C12: when a write to the cache fails, create_message still returns the
\* message it inserted, which is in the store, and get_chat_history still
\* returns the most recent messages of the store; neither raises.
C12_WriteFailureSwallowed ==
    \A w \in Workers :
        (Ended(w) /\ task[w].cache = "failed") =>
            /\ task[w].outcome = "return"
            /\ task[w].op = "create_message" =>
                   /\ Len(task[w].value) = 1
                   /\ task[w].value[1] \in Range(db_messages)
            /\ task[w].op = "get_chat_history" =>
                   task[w].value = RecentSchemas(task[w].chat_id)

\* the repopulation of the cache failed for a chat with more messages than
\* the cache takes
C12_Witness ==
    \E w \in Workers :
        /\ Ended(w)
        /\ task[w].cache = "failed"
        /\ task[w].op = "get_chat_history"
        /\ Len(task[w].value) = max_messages
        /\ Len(get_chat_messages(task[w].chat_id)) > max_messages

\* when the append to the cache failed, create_message returned the message
AppendFailureReturned ==
    \E w \in Workers :
        /\ Ended(w)
        /\ task[w].cache = "failed"
        /\ task[w].op = "create_message"
        /\ redis[task[w].value[1].chat_id] = <<>>

\* C13: when the read of the cache fails, get_chat_history does not raise and
\* returns the most recent max_messages messages of the store.
C13_ReadFailureSwallowed ==
    \A w \in Workers :
        (Ended(w) /\ task[w].op = "get_chat_history" /\ task[w].cache = "read_failed") =>
            /\ task[w].outcome = "return"
            /\ task[w].value = RecentSchemas(task[w].chat_id)

\* C14: a get_chat_history that misses the cache returns the last
\* max_messages messages of the store, oldest first, and leaves them in the
\* cache when its writes go through; the get_chat_history that follows it
\* returns the same sequence.
C14_MissRepopulates ==
    [][ \A w \in Workers :
          (/\ task[w] # Idle
           /\ task[w].step # "done"
           /\ task'[w].op = "get_chat_history"
           /\ task'[w].step = "done"
           /\ task'[w].outcome = "return")
          => LET t == task'[w]
             IN  /\ t.miss =>
                       /\ t.value = RecentSchemas(t.chat_id)
                       /\ \A i, j \in 1..Len(t.value) :
                              i < j => t.value[i].created_at < t.value[j].created_at
                       /\ t.cache = "ok" => redis'[t.chat_id] = Map(t.value, model_dump)
                 /\ (t.prev # <<>> /\ t.prev[1].miss) =>
                       /\ t.value = t.prev[1].value
                       /\ (t.cache = "hit" => t.value = Map(redis[t.chat_id],
                                                             _dict_to_message_data)) ]_vars

\* a miss on a chat with more messages than the cache takes, then a hit that
\* returned the same messages
C14_Witness ==
    \E w \in Workers :
        /\ Ended(w)
        /\ task[w].op = "get_chat_history"
        /\ task[w].outcome = "return"
        /\ task[w].cache = "hit"
        /\ task[w].prev # <<>>
        /\ task[w].prev[1].miss
        /\ task[w].prev[1].cache = "ok"
        /\ Len(task[w].value) = max_messages
        /\ task[w].value = task[w].prev[1].value
        /\ Len(get_chat_messages(task[w].chat_id)) > max_messages

\* ------------------------------------------------------------------------
\* Properties of the sessions
\* ------------------------------------------------------------------------

\* the writes to the history cache among the events: appends and sets
Writes ==
    SelectSeq(trace, LAMBDA ev : ev.e = "persist" \/ (ev.e = "load" /\ ev.set # "skipped"))

WriteCompleted(ev) == IF ev.e = "persist" THEN ev.append = "none" ELSE ev.set = "none"

WriteChat(ev) == IF ev.e = "persist" THEN ev.message.chat_id ELSE handler.chat_id

\* the handler has appended the user message and the assistant message of the
\* current frame, and both appends went through
PairAppended ==
    /\ hpc = "send_assistant"
    /\ WriteCompleted(Writes[Len(Writes) - 1])
    /\ WriteCompleted(Writes[Len(Writes)])

\* C11: once a set or an append on a chat's cache entry has gone through, the
\* entry has at most max_messages elements; a user message and its assistant
\* message appended to an entry of max_messages elements leave max_messages
\* elements: the entry without its two oldest, then the user message, then
\* the assistant message.
C11_BoundedAppend ==
    /\ (Writes # <<>> /\ WriteCompleted(Writes[Len(Writes)])) =>
           Len(redis[WriteChat(Writes[Len(Writes)])]) <= max_messages
    /\ PairAppended =>
           LET before == current.before
               pair == << _message_to_dict(Writes[Len(Writes) - 1].message),
                          _message_to_dict(Writes[Len(Writes)].message) >>
               list == redis[handler.chat_id]
           IN  /\ Writes[Len(Writes) - 1].message.role = "user"
               /\ Writes[Len(Writes)].message.role = "assistant"
               /\ list = LastN(before \o pair, max_messages)
               /\ Len(before) = max_messages =>
                      /\ Len(list) = max_messages
                      /\ list = SubSeq(before, 3, max_messages) \o pair

\* the entry was set from the store when the session began, held
\* max_messages elements, and a pair was appended to it
C11_Witness ==
    /\ PairAppended
    /\ Len(current.before) = max_messages
    /\ \E j \in 1..Len(trace) : trace[j].e = "load" /\ trace[j].set = "none"
    /\ Len(db_messages) > max_messages + 2

\* the entries of the trace that follow the receipt of frame n, up to the
\* receipt of the next frame
EventsOf(n) ==
    LET at == CHOOSE i \in 1..Len(trace) : trace[i].e = "recv" /\ trace[i].n = n
        next == {j \in (at + 1)..Len(trace) : trace[j].e = "recv"}
        last == IF next = {} THEN Len(trace)
                ELSE (CHOOSE j \in next : \A k \in next : j <= k) - 1
    IN  SubSeq(trace, at + 1, last)

Received(n) == \E i \in 1..Len(trace) : trace[i].e = "recv" /\ trace[i].n = n

\* a frame to the client that ends the handling of an inbound frame: an
\* error, a pong, or the assistant message
ClosingFrame(ev) ==
    /\ ev.e = "send"
    /\ \/ ev.frame.type \in {"error", "pong"}
       \/ ev.frame.type = "message" /\ ev.frame.data.role = "assistant"

\* the handling of a frame went through all its steps: both persists with
\* their appends to the cache and both sends, the user message first
FullyHandled(n) ==
    LET evs == EventsOf(n)
    IN  /\ Len(evs) = 4
        /\ evs[1].e = "persist" /\ evs[1].message.role = "user"
        /\ evs[2].e = "send" /\ evs[2].frame.type = "message"
        /\ evs[3].e = "persist" /\ evs[3].message.role = "assistant"
        /\ ClosingFrame(evs[4]) /\ evs[4].frame.type = "message"

\* C15: frames are handled one at a time in arrival order: the handler takes
\* frame n+1, the oldest frame not yet taken, only when the handling of
\* frame n is over, that is after the last persist and the last send frame n
\* leads to; nothing of frame n happens after frame n+1 was received.
C15_OneFrameAtATime ==
    [][ (Len(trace') = Len(trace) + 1 /\ trace'[Len(trace')].e = "recv")
        => LET ev == trace'[Len(trace')]
           IN  /\ ev.n = current.n + 1
               /\ inbox # <<>> /\ ev.text = Head(inbox) /\ inbox' = Tail(inbox)
               /\ \A m \in 1..current.n :
                      /\ Received(m)
                      /\ EventsOf(m) # <<>>
                      /\ ClosingFrame(EventsOf(m)[Len(EventsOf(m))])
                      /\ \A i \in 1..(Len(EventsOf(m)) - 1) : ~ClosingFrame(EventsOf(m)[i])
                      /\ (\E i \in 1..Len(EventsOf(m)) : EventsOf(m)[i].e = "persist"
                                /\ EventsOf(m)[i].message.role = "assistant")
                            => FullyHandled(m) ]_vars

\* the second frame was received after the first, a message, had been
\* persisted twice and answered twice
C15_Witness ==
    /\ Received(2)
    /\ FullyHandled(1)

\* the handler is inside handle_message for the current frame
Handling ==
    hpc \in {"persist_user", "send_user", "persist_assistant", "send_assistant", "send_pong"}

\* the handler took a step
HandlerStep == <<hpc, current, trace>>' # <<hpc, current, trace>>

\* the handling of the current frame raised
FrameRaised ==
    \/ current.exc # None
    \/ current.n > 0 /\ loads(current.text).ok /\ ~loads(current.text).is_dict

\* C16: an exception raised while a frame is handled does not leave
\* message_loop: the except clause sends the error frame "Failed to process
\* message" and the handler is back at receive_text with the connection still
\* registered; the loop is left only once the client has closed the transport.
C16_LoopSurvivesException ==
    [][ HandlerStep =>
          /\ Handling => hpc' \in {"persist_user", "send_user", "persist_assistant",
                                    "send_assistant", "send_pong", "receive", "send_error"}
          /\ (Handling /\ hpc' = "send_error") =>
                 /\ current'.exc # None
                 /\ current'.error = "Failed to process message"
          /\ (hpc = "send_error" /\ FrameRaised /\ client_open) =>
                 /\ trace' = Append(trace, SendFrame(ErrorFrame("Failed to process message")))
                 /\ hpc' = "receive"
                 /\ Socket \in active_connections'[handler.chat_id]
          /\ (current.n > 0 /\ hpc # "boundary" /\ hpc' = "boundary") => ~client_open
      ]_vars

\* the insert of the first frame's user message failed, the client got the
\* error frame and nothing else, and the second frame was received
C16_Witness ==
    /\ Received(2)
    /\ \E i \in 1..Len(trace) :
          /\ trace[i] = Recv(1, "{\"type\": \"message\", \"content\": \" Hi \"}")
    /\ EventsOf(1) = <<SendFrame(ErrorFrame("Failed to process message"))>>
    /\ client_open

BadJsonText == "{bad"

UnknownTypeText == "{\"type\": \"subscribe\"}"

\* the error a frame that is not a message or a ping is answered with
ExpectedError(text) ==
    IF text = BadJsonText THEN "Invalid JSON format" ELSE "Unknown message type: subscribe"

\* the text of frame n
TextOf(n) == (CHOOSE ev \in Range(trace) : ev.e = "recv" /\ ev.n = n).text

\* C17: a frame that does not parse and a frame of an unknown type are
\* answered with one error frame and nothing else: the handler goes from
\* receive_text to send_error and back to receive_text, no message is
\* persisted, the orchestrator is not called, nothing is closed and the
\* connection stays registered.
C17_BadFrameOneError ==
    [][ /\ \A n \in 1..current.n :
              TextOf(n) \in {BadJsonText, UnknownTypeText} =>
                  \/ EventsOf(n) = <<>>
                  \/ EventsOf(n) = <<SendFrame(ErrorFrame(ExpectedError(TextOf(n))))>>
                  \/ EventsOf(n) = <<Close(1011)>> /\ ~client_open
        /\ (HandlerStep /\ hpc = "receive" /\ inbox # <<>>
                /\ Head(inbox) \in {BadJsonText, UnknownTypeText}) =>
              /\ hpc' = "send_error"
              /\ current'.error = ExpectedError(Head(inbox))
        /\ (HandlerStep /\ hpc = "send_error" /\ client_open
                /\ current.text \in {BadJsonText, UnknownTypeText}) =>
              /\ trace' = Append(trace, SendFrame(ErrorFrame(ExpectedError(current.text))))
              /\ hpc' = "receive"
              /\ UNCHANGED <<db_messages, redis, redis_ttl, agentVars, chat_history_cache, svc>>
              /\ UNCHANGED <<active_connections, websocket_users, handler>>
              /\ Socket \in active_connections[handler.chat_id]
      ]_vars

\* an unparseable frame, then a frame of an unknown type, each answered with
\* its error frame, the store as it was and the handler at receive_text
C17_Witness ==
    /\ Received(2)
    /\ TextOf(1) = BadJsonText
    /\ EventsOf(1) = <<SendFrame(ErrorFrame("Invalid JSON format"))>>
    /\ TextOf(2) = UnknownTypeText
    /\ EventsOf(2) = <<SendFrame(ErrorFrame("Unknown message type: subscribe"))>>
    /\ hpc = "receive"
    /\ client_open
    /\ \A i \in 1..Len(trace) : trace[i].e \notin {"persist", "close"}

WhitespaceOnlyText == "{\"type\": \"message\", \"content\": \"  \"}"

NoContentText == "{\"type\": \"message\"}"

EmptyError == SendFrame(ErrorFrame("Message content cannot be empty"))

\* C18: a message frame whose content is missing, empty or only whitespace
\* is answered with the error frame "Message content cannot be empty" and
\* nothing else: from receive_text the handler goes to that send_error and
\* back, and over both steps the store, Redis, the in-process history cache
\* and the orchestrator's state are unchanged.
C18_EmptyContentRejected ==
    [][ /\ \A n \in 1..current.n :
              TextOf(n) \in {WhitespaceOnlyText, NoContentText} =>
                  \/ EventsOf(n) = <<>>
                  \/ EventsOf(n) = <<EmptyError>>
                  \/ EventsOf(n) = <<Close(1011)>> /\ ~client_open
        /\ (HandlerStep /\ hpc = "receive" /\ inbox # <<>>
                /\ Head(inbox) \in {WhitespaceOnlyText, NoContentText}) =>
              /\ hpc' = "send_error"
              /\ current'.error = "Message content cannot be empty"
              /\ current'.user_message = <<>>
              /\ UNCHANGED <<db_messages, redis, redis_ttl, agentVars, chat_history_cache, svc>>
        /\ (HandlerStep /\ hpc = "send_error" /\ client_open
                /\ current.text \in {WhitespaceOnlyText, NoContentText}) =>
              /\ trace' = Append(trace, EmptyError)
              /\ hpc' = "receive"
              /\ UNCHANGED <<db_messages, redis, redis_ttl, agentVars, chat_history_cache, svc>>
      ]_vars

\* a whitespace-only message and a message without content, each answered
\* with the validation error, on a store and a cache entry that still hold
\* what the session found
C18_Witness ==
    /\ Received(2)
    /\ TextOf(1) = WhitespaceOnlyText
    /\ EventsOf(1) = <<EmptyError>>
    /\ TextOf(2) = NoContentText
    /\ EventsOf(2) = <<EmptyError>>
    /\ hpc = "receive"
    /\ db_messages = StoredHistory(max_messages)
    /\ redis["c1"] = Map(StoredHistory(max_messages), _message_to_dict)

PingText == "{\"type\": \"ping\"}"

\* C19: a ping frame is answered with one frame {"type": "pong"} and has no
\* other effect: from receive_text to the send and back, the store, Redis and
\* its expiries, the in-process history cache, the connection registry, the
\* handler's chat and user and the orchestrator are unchanged.
C19_PingPong ==
    [][ /\ \A n \in 1..current.n :
              TextOf(n) = PingText =>
                  \/ EventsOf(n) = <<>>
                  \/ EventsOf(n) = <<SendFrame([type |-> "pong"])>>
                  \/ EventsOf(n) = <<Close(1011)>> /\ ~client_open
        /\ (HandlerStep /\ hpc = "receive" /\ inbox # <<>> /\ Head(inbox) = PingText) =>
              /\ hpc' = "send_pong"
              /\ UNCHANGED <<db_messages, redis, redis_ttl, agentVars, chat_history_cache, svc>>
              /\ UNCHANGED <<active_connections, websocket_users, handler, demo_users>>
        /\ (HandlerStep /\ hpc = "send_pong" /\ client_open) =>
              /\ trace' = Append(trace, SendFrame([type |-> "pong"]))
              /\ hpc' = "receive"
              /\ current' = current
              /\ UNCHANGED <<db_messages, redis, redis_ttl, agentVars, chat_history_cache, svc>>
              /\ UNCHANGED <<active_connections, websocket_users, handler, demo_users>>
      ]_vars

\* two pings, each answered with a pong, on a store and a cache entry that
\* still hold what the session found and a socket that is still registered
C19_Witness ==
    /\ Received(2)
    /\ TextOf(1) = PingText /\ TextOf(2) = PingText
    /\ EventsOf(1) = <<SendFrame([type |-> "pong"])>>
    /\ EventsOf(2) = <<SendFrame([type |-> "pong"])>>
    /\ hpc = "receive"
    /\ db_messages = StoredHistory(max_messages)
    /\ redis["c1"] = Map(StoredHistory(max_messages), _message_to_dict)
    /\ active_connections = [c \in {"c1"} |-> {Socket}]

\* a message frame went out for frame n before both of its messages were
\* in the store
SentBeforeStored(n) ==
    LET evs == EventsOf(n)
    IN  \E i \in 1..Len(evs) :
            /\ evs[i].e = "send" /\ evs[i].frame.type = "message"
            /\ ~\E j, k \in 1..(i - 1) :
                   /\ j < k
                   /\ evs[j].e = "persist" /\ evs[j].message.role = "user"
                   /\ evs[k].e = "persist" /\ evs[k].message.role = "assistant"

\* process_user_message stored the user message and then raised
PipelineBroken ==
    /\ svc.pc = "done"
    /\ svc.raised \notin {None, "NotFoundException", "SQLAlchemyError"}

\* C20: a message frame with content runs the pipeline in order: the user
\* message is persisted, the orchestrator is invoked, the assistant message
\* is persisted, the history cache is updated, and only then the user frame
\* and the assistant frame are sent; so no message frame goes out before
\* both messages are in the store, an assistant message is persisted only
\* after the orchestrator ran, and process_user_message, once the user
\* message is stored, gets to the end.
C20_PipelineOrder ==
    /\ \A n \in 1..current.n : ~SentBeforeStored(n)
    /\ (\E i \in 1..Len(trace) : trace[i].e = "persist" /\ trace[i].message.role = "assistant")
           => llm_calls # <<>>
    /\ ~PipelineBroken

\* the messages this session persisted in a chat, in the order it did
PersistedIn(c) ==
    LET evs == SelectSeq(trace, LAMBDA ev : ev.e = "persist" /\ ev.message.chat_id = c)
    IN  [i \in 1..Len(evs) |-> evs[i].message]

\* where a message is in what the store returns for its chat
PlaceOf(m) ==
    LET ms == get_chat_messages(m.chat_id)
    IN  CHOOSE i \in 1..Len(ms) : ms[i] = m

\* the messages persisted for frame n
MessagesOf(n) ==
    LET evs == SelectSeq(EventsOf(n), LAMBDA ev : ev.e = "persist")
    IN  [i \in 1..Len(evs) |-> evs[i].message]

AccessDenied == handler.variant = "chat" /\ handler.chat_id \in {"c0", "c2"}

\* C22: an authenticated session on a chat its caller may not access fails
\* closed: nothing is accepted, loaded, received or sent, the handler never
\* gets to the message loop, and when handle_connection has returned the
\* only thing done is a close with code 1008 and the websocket is not in the
\* registry.
C22_AccessDeniedFailsClosed ==
    AccessDenied =>
        /\ hpc \in {"verify", "deny", "disconnect", "closed"}
        /\ \A i \in 1..Len(trace) : trace[i] = Close(1008)
        /\ Len(trace) <= 1
        /\ current.n = 0
        /\ hpc \in {"disconnect", "closed"} => trace = <<Close(1008)>>
        /\ \A c \in DOMAIN active_connections : Socket \notin active_connections[c]
        /\ Socket \notin DOMAIN websocket_users

\* the handler of a session on somebody else's chat has returned
C22_Witness ==
    /\ AccessDenied
    /\ handler.chat_id = "c2"
    /\ hpc = "closed"
    /\ trace = <<Close(1008)>>
    /\ active_connections = [c \in {} |-> {}]

\* handle_connection of a demo session has returned
DemoReturned == handler.variant = "demo" /\ hpc = "closed"

\* handle_connection of a demo session whose setup_session had returned has
\* returned
DemoSessionOver == DemoReturned /\ handler.chat_id # None

WatchdogClose(reason) == [e |-> "close", code |-> 1000, reason |-> reason]

Closed(reason) == \E i \in 1..Len(trace) : trace[i] = WatchdogClose(reason)

\* C24: a demo session that has been there for more than demo_ws_lifetime
\* and one more period of the lifetime check has been closed with code 1000
\* and the reason "Demo session expired (2 minutes)", and its handler has
\* returned.
C24_LifetimeEnforced ==
    (handler.variant = "demo" /\ now > demo_ws_lifetime + 1) =>
        /\ Closed("Demo session expired (2 minutes)")
        /\ hpc = "closed"

\* C25: a session that has been waiting for its first frame for more than
\* websocket_idle_timeout and one more period has been closed with the
\* reason "idle timeout", and its handler has returned.
C25_IdleSessionClosed ==
    (handler.variant = "chat" /\ current.n = 0 /\ now > websocket_idle_timeout + 1) =>
        /\ Closed("idle timeout")
        /\ hpc = "closed"

\* the close events of the session
CloseEvents == {i \in 1..Len(trace) : trace[i].e = "close"}

\* the teardowns that cancelled a lifetime task
Cancellations == {i \in 1..Len(teardown) : teardown[i].cancelled}

\* a demo session that the endpoint closed and that was torn down twice
ClosedTwice ==
    /\ DemoReturned
    /\ Len(teardown) = 2
    /\ CloseEvents # {}

\* what holds of the parts of a second close that do run: never more than
\* one close event, never more than one cancellation, nothing raised
SecondCloseQuiet ==
    ClosedTwice =>
        /\ Cardinality(CloseEvents) = 1
        /\ Cardinality(Cancellations) <= 1
        /\ teardown[2].raised = None

StoredOf(set) == {i \in 1..Len(db_messages) : db_messages[i].chat_id \in set}

\* C27: the first teardown of a demo session deletes the user and the chat
\* its setup created and leaves no message of that chat in the store; a second
\* teardown raises nothing and deletes no user, no chat and no message.
C27_TeardownOnce ==
    /\ (Len(teardown) >= 1 /\ handler.chat_id # None) =>
           /\ teardown[1].raised = None
           /\ teardown[1].users = {"demo1"}
           /\ teardown[1].chats = {"d1"}
           /\ "demo1" \notin demo_users
           /\ "d1" \notin demo_chats
           /\ StoredOf({"d1"}) = {}
    /\ Len(teardown) >= 2 =>
           /\ teardown[2].raised = None
           /\ teardown[2].users = {}
           /\ teardown[2].chats = {}
           /\ teardown[2].messages = {}

\* a demo session torn down by its handler and then once more: the second
\* delete_user did not find the user
C27_Witness ==
    /\ DemoReturned
    /\ Len(teardown) = 2
    /\ teardown[1].users = {DemoUser}
    /\ teardown[1].swallowed = None
    /\ teardown[2].swallowed = "UserNotFoundError"
    /\ demo_users = {}

\* broadcast_to_chat has come to its end on a chat that had an entry
BroadcastOver == bc.pc = "done" /\ bc.registered

\* C28: a broadcast during which another task registered or unregistered a
\* connection of the same chat raises nothing, and every connection that
\* was registered for the chat from its beginning to its end had its send.
C28_ConcurrentBroadcastSafe ==
    (BroadcastOver /\ bc.changed_chat) =>
        /\ bc.raised = None
        /\ bc.stayed \subseteq bc.delivered \cup bc.disconnected

\* C29: no chat of the registry has an empty set of connections.
C29_NoEmptySets ==
    \A c \in DOMAIN active_connections : active_connections[c] # {}

\* a session's disconnect has taken the last connection out of the chat a
\* broadcast is going through, and the chat's entry is gone with it while
\* the other chat keeps its own
C29_Witness ==
    /\ bc.pc = "send"
    /\ bc.detached
    /\ bc.initial = {"ws1"}
    /\ DOMAIN active_connections = Chats \ {bc.chat_id}
    /\ "ws1" \notin DOMAIN websocket_users

\* the registry a broadcast has to leave: the one it found, without the
\* connections whose send failed
WithoutFailed ==
    LET rest == bc.initial \ bc.disconnected
        gone == IF rest = {} THEN {bc.chat_id} ELSE {}
    IN  [ac |-> [c \in DOMAIN bc.before.ac \ gone |->
                    IF c = bc.chat_id THEN rest ELSE bc.before.ac[c]],
         users |-> [w \in DOMAIN bc.before.users \ bc.disconnected |->
                       bc.before.users[w]]]

\* C30: a broadcast that no other task's connect or disconnect ran into
\* raises nothing; every connection the chat had was sent the payload, the
\* ones after a failed send too; the connections whose send failed, and only
\* they, are out of both registry maps afterwards.
C30_FailureIsolation ==
    (BroadcastOver /\ ~bc.changed) =>
        /\ bc.raised = None
        /\ bc.visited = bc.initial
        /\ bc.delivered \cup bc.disconnected = bc.initial
        /\ bc.delivered \cap bc.disconnected = {}
        /\ active_connections = WithoutFailed.ac
        /\ websocket_users = WithoutFailed.users

\* a broadcast to three connections: one send failed, the two others went
\* out, and the chat is left with those two
C30_Witness ==
    /\ BroadcastOver
    /\ ~bc.changed
    /\ bc.initial = Sockets
    /\ Cardinality(bc.disconnected) = 1
    /\ Cardinality(bc.delivered) = 2
    /\ active_connections[bc.chat_id] = bc.delivered

\* the text process answers with after a failure of the first gateway call
\* of class cls with message msg (orchestrator.py:98-120)
FirstCallText(cls, msg) ==
    CASE cls = "LLMAuthenticationError" ->
             "Configuration error: Invalid OpenAI API key. Please contact support."
      [] cls = "LLMRateLimitError" ->
             "Too many requests. Please wait a moment and try again."
      [] cls \in {"LLMContextLengthError", "LLMError"} ->
             "Sorry, I encountered an error: " \o msg
      [] OTHER -> "An unexpected error occurred. Please try again."

\* process has returned after a failure of the second gateway call
SecondCallFailed == ProcessDone /\ failure.at = "dispatch2"

\* C31: after a failure of the second gateway call process lets no exception
\* through, and its answer is the text a failure of the first call of the
\* same class and message gets, without tool metadata.
C31_SecondCallFailure ==
    /\ SecondCallFailed =>
           /\ escaped = None
           /\ response.content = FirstCallText(failure.cls, failure.msg)
           /\ response.tool_metadata = <<>>
    /\ (ProcessDone /\ failure.at = "dispatch1") =>
           /\ escaped = None
           /\ response.content = FirstCallText(failure.cls, failure.msg)
           /\ response.tool_metadata = <<>>

\* a tool was run and the second call then failed with a rate-limit failure
C31_Witness ==
    /\ SecondCallFailed
    /\ failure.cls = "LLMRateLimitError"
    /\ Len(ToolEvents) >= 2
    /\ response.content = "Too many requests. Please wait a moment and try again."

\* handle_connection has returned after an exception met outside the
\* handling of a frame: no frame was received, and the exception is neither
\* the client's disconnect nor an access-denied outcome
BoundaryFailure ==
    /\ hpc = "closed"
    /\ current.n = 0
    /\ current.exc \notin {None, "WebSocketDisconnect"}
    /\ ~AccessDenied

\* what does hold after such a failure: the cleanup has run, the websocket is
\* out of the registry, and the client got the error frame or, when that
\* could not be sent, the close with code 1011
BoundaryFailureHandled ==
    BoundaryFailure =>
        /\ handler.variant = "demo" => Len(teardown) >= 1
        /\ Socket \notin DOMAIN websocket_users
        /\ \/ trace[Len(trace)] = SendFrame(ErrorFrame("Internal server error"))
           \/ trace[Len(trace)] = Close(1011)

\* C32: after an unexpected failure at the session boundary the session has
\* been cleaned up and the connection closed with the internal-error code
\* 1011.
C32_BoundaryFailureCloses ==
    BoundaryFailure =>
        /\ handler.variant = "demo" => Len(teardown) >= 1
        /\ Socket \notin DOMAIN websocket_users
        /\ \E i \in 1..Len(trace) : trace[i] = Close(1011)

\* the two calls are over
Quiet == \A w \in Workers : task[w].op # "idle" /\ task[w].step = "done"

\* the list is in the order of the store, no message twice
InStoreOrder(list) ==
    \A i, j \in 1..Len(list) :
        i < j => fromisoformat(list[i].created_at) < fromisoformat(list[j].created_at)

\* the call of w was a get_chat_history that missed the cache and wrote it
\* with set_messages
DidSet(w) ==
    /\ task[w].op = "get_chat_history"
    /\ task[w].miss
    /\ task[w].cache = "ok"

\* the call of w was a create_message that wrote the cache with add_message
DidAdd(w) == task[w].op = "create_message" /\ task[w].cache = "ok"

\* C33: after two set_messages that ran at the same time the entry of c1 is
\* the list one of the two wrote; after an add_message and a set_messages
\* that ran at the same time the entry has at most max_messages messages,
\* in the order of the store and none twice.
C33_ConcurrentCache ==
    Quiet =>
        /\ (DidSet("w1") /\ DidSet("w2")) =>
               \E w \in Workers : redis["c1"] = Map(task[w].value, model_dump)
        /\ (DidAdd("w1") /\ DidSet("w2")) =>
               /\ Len(redis["c1"]) <= max_messages
               /\ InStoreOrder(redis["c1"])

\* the first half of C33 alone
TwoSetsLastWriterWins ==
    (Quiet /\ DidSet("w1") /\ DidSet("w2")) =>
        \E w \in Workers : redis["c1"] = Map(task[w].value, model_dump)

\* the second half of C33 alone
AddWithSetBounded ==
    (Quiet /\ DidAdd("w1") /\ DidSet("w2")) =>
        /\ Len(redis["c1"]) <= max_messages
        /\ InStoreOrder(redis["c1"])

\* the call of process_user_message is over, for a chat that exists and with
\* a database that did not fail
Processed ==
    /\ svc.pc = "done"
    /\ svc.chat_id \in Chats
    /\ svc.raised # "SQLAlchemyError"

\* the chat had no message before this session
StartedEmpty(c) == get_chat_messages(c) = PersistedIn(c)

\* the roles of a list of messages
RolesOf(list) == [i \in 1..Len(list) |-> list[i].role]

\* C34: starting from an empty history, after a processed user message
\* (k = 1, 2k within the bound) the history cache of the session holds for
\* that chat exactly the two messages, the user message and then the
\* assistant message, none twice and none missing.
C34_HistoryCacheAfterProcessing ==
    (Processed /\ StartedEmpty(svc.chat_id)) =>
        /\ svc.chat_id \in DOMAIN chat_history_cache
        /\ RolesOf(chat_history_cache[svc.chat_id]) = <<"user", "assistant">>
        /\ chat_history_cache[svc.chat_id] = get_chat_messages(svc.chat_id)

\* the user message the call of process_user_message persisted
PendingUserMessage == PersistedIn(svc.chat_id)[1]

\* how many times a message with this role and content is in the list
TimesIn(list, role, content) ==
    Cardinality({i \in 1..Len(list) : list[i].role = role /\ list[i].content = content})

\* C35: in a call of process_user_message the list handed to the first
\* gateway call has the pending user message exactly once, as its last
\* element, after the earlier history in its order; here with the history
\* first loaded inside process_user_message, after the user message was
\* persisted.
C35_PendingMessageOnce ==
    (Processed /\ StartedEmpty(svc.chat_id)) =>
        /\ llm_calls # <<>>
        /\ LET messages == llm_calls[1].messages
               pending == PendingUserMessage
           IN  /\ messages # <<>>
               /\ messages[Len(messages)].role = "user"
               /\ messages[Len(messages)].content = pending.content
               /\ TimesIn(messages, "user", pending.content) = 1

\* process has returned a response without tool metadata
PlainResponse ==
    /\ ProcessDone
    /\ escaped = None
    /\ response.tool_metadata = <<>>

\* C36: when the response process returns carries no tool metadata, no tool
\* was executed during the call.
C36_NoMetadataNoTool == PlainResponse => ToolEvents = <<>>

\* the narrower half of C36: no tool has run to its end and returned
NoMetadataNoToolReturned ==
    PlainResponse => \A i \in 1..Len(events) : events[i][1] # "return"

\* the connections that are in the set of some chat
Members == UNION {active_connections[c] : c \in DOMAIN active_connections}

\* ConnectionManager.get_user_id
get_user_id(websocket) ==
    IF websocket \in DOMAIN websocket_users THEN websocket_users[websocket] ELSE None

\* C37: the connections with a recorded owner are exactly the connections
\* in the set of some chat: get_user_id gives an owner for a connection
\* if and only if the connection is registered for at least one chat.
C37_OwnersAreMembers ==
    \A websocket \in Sockets : get_user_id(websocket) # None <=> websocket \in Members

\* handle_connection of an ephemeral session is over and the client had
\* closed the transport
DemoClientClosed ==
    /\ hpc = "closed"
    /\ handler.variant = "demo"
    /\ ~client_open

\* C38: when the client closes the transport of an ephemeral session, the
\* handler goes to cleanup without a send on the closed connection (a send
\* that raises), and handle_connection returns instead of raising to the
\* endpoint.
C38_ClientCloseQuiet ==
    DemoClientClosed =>
        /\ ~current.escaped
        /\ \A i \in 1..Len(trace) : trace[i] # Close(1011)

\* the case of C38 where the websocket had been accepted before the client
\* closed it
ClientCloseAfterAcceptQuiet ==
    (DemoClientClosed /\ \E i \in 1..Len(trace) : trace[i] = Accept) => ~current.escaped

\* the websocket was accepted
Accepted == \E i \in 1..Len(trace) : trace[i] = Accept

\* handle_connection of a demo session has returned after a setup that
\* failed once the throwaway user was there: at the creation of the chat, or
\* at the accept of the websocket
SetupFailedWithOwner ==
    /\ DemoReturned
    /\ handler.user_id # None
    /\ handler.chat_id = None \/ ~Accepted

\* C39: when the setup of a demo session failed after the throwaway user was
\* created, cleanup has deleted that user all the same and the websocket is
\* in neither registry map: the user does not outlive handle_connection.
C39_OwnerNeverOutlives ==
    SetupFailedWithOwner =>
        /\ Len(teardown) >= 1
        /\ teardown[1].users = {DemoUser}
        /\ demo_users = {}
        /\ Socket \notin DOMAIN websocket_users
        /\ Socket \notin Members

\* the half of C39 about a failed accept: the user and the chat created
\* before it are gone
AcceptFailedOwnerDeleted ==
    (SetupFailedWithOwner /\ handler.chat_id # None) =>
        /\ teardown[1].users = {DemoUser}
        /\ teardown[1].chats = {DemoChat}
        /\ demo_users = {}

\* the accept failed, and the user and the chat created before it are gone
AcceptFailedOwnerGone ==
    /\ SetupFailedWithOwner
    /\ handler.chat_id = DemoChat
    /\ current.exc = "RuntimeError"
    /\ teardown[1].users = {DemoUser}
    /\ teardown[1].chats = {DemoChat}
    /\ demo_users = {}

\* the user message of frame n was persisted and echoed to the client
Echoed(n) ==
    /\ Received(n)
    /\ LET evs == EventsOf(n)
       IN  /\ Len(evs) >= 2
           /\ evs[1].e = "persist"
           /\ evs[1].message.role = "user"
           /\ evs[2] = SendFrame(MessageFrame(evs[1].message))

\* the handling of frame n is over: the handler is back at receive_text, or
\* has received the next frame
HandlingOver(n) ==
    \/ Received(n + 1)
    \/ current.n = n /\ hpc = "receive"

\* the frames sent for frame n after the echo of its user message
FurtherFrames(n) ==
    LET evs == EventsOf(n)
    IN  SelectSeq(SubSeq(evs, 3, Len(evs)), LAMBDA ev : ev.e = "send")

\* the frame is the assistant message made for the user message, or an error
AssistantOrError(frame, user_message) ==
    \/ /\ frame.type = "message"
       /\ frame.data.role = "assistant"
       /\ frame.data.content = "Echo: " \o user_message.content
    \/ frame.type = "error"

\* C40: in an authenticated session a user message that was persisted and
\* echoed has got, by the time the handler waits for or has received the
\* next frame, exactly one further frame: the assistant message or an error
\* frame; and the user message is in the store, also when the assistant
\* message could not be persisted.
C40_EchoedMessageAnswered ==
    handler.variant = "chat" =>
        \A n \in 1..current.n :
            Echoed(n) =>
                LET user_message == EventsOf(n)[1].message
                    further == FurtherFrames(n)
                IN  /\ \E i \in 1..Len(db_messages) : db_messages[i] = user_message
                    /\ HandlingOver(n) =>
                           /\ Len(further) = 1
                           /\ AssistantOrError(further[1].frame, user_message)

\* the user message of the first frame was echoed, the insert of the
\* assistant message failed, the client got the error frame, the user
\* message is the one message of the chat, and the second frame was received
C40_Witness ==
    /\ handler.variant = "chat"
    /\ Echoed(1)
    /\ Received(2)
    /\ FurtherFrames(1) = <<SendFrame(ErrorFrame("Failed to process message"))>>
    /\ get_chat_messages(handler.chat_id) = <<EventsOf(1)[1].message>>

\* the user message of the first frame was echoed and answered by the
\* assistant message
EchoedAndAnswered ==
    /\ handler.variant = "chat"
    /\ Echoed(1)
    /\ HandlingOver(1)
    /\ Len(FurtherFrames(1)) = 1
    /\ FurtherFrames(1)[1].frame.type = "message"

====
